---- MODULE Spec2Model ----
(***************************************************************************)
(* A model of SpotDB (aliengiraffe/spotdb): the database handle of         *)
(* pkg/database/duckdb.go with its callers' interleavings, the bounded     *)
(* copy of pkg/helpers/helpers.go, and the API-key check of the three      *)
(* surfaces.                                                               *)
(*                                                                         *)
(* SQL text is modelled as a sequence of lexemes.  The characters the      *)
(* splitter gives a meaning to (the semicolon, the two quote characters,   *)
(* the backslash) and the blank are lexemes of their own; every other      *)
(* lexeme stands for a run of text that contains none of them.             *)
(***************************************************************************)
EXTENDS Naturals, Integers, Sequences, FiniteSets, TLC

VARIABLES
    sqlClosed,      \* database/sql: the closed flag of db.db
    tables,         \* the engine's catalog: names of the existing tables
    walDirty,       \* the engine holds committed changes not yet in its file
    fileVer,        \* generation of the contents of the engine file db.dbPath
    fileExists,     \* the engine file is on disk
    muWriter,       \* db.mu: the holder of the write lock, or NoOne
    muReaders,      \* db.mu: the holders of the read lock
    ctxCancelled,   \* the root context of cmd/app has been cancelled
    dbCtxCancelled, \* db.cancelFunc has been called
    query,          \* the ExecuteQuery calls, by caller
    closer,         \* the Close calls, by caller
    snap,           \* the CreateSnapshot calls, by caller
    csv,            \* the createTableFromCSVDirectly call
    worker,         \* the cleanup worker goroutine
    trail,          \* history: the states the handle has been in, in order
    copyIn,         \* bounded copy: the arguments and environment of the call
    source,         \* bounded copy: the bytes of src not yet read
    cuts,           \* history: the offsets of the input at which a Read ended
    copyPc,         \* bounded copy: "off", "copying" or "done"
    ctx,            \* bounded copy: the ProcessingContext, the bytes in dst, the calls made
    apiKeyEnv,      \* the environment variable API_KEY
    request,        \* the last request a listener has answered
    response,       \* the answer to it: status, and the handler it reached
    nServed,        \* the number of requests answered
    upload,         \* the CSV upload request: its position, its form, the statements sent, the answer
    snapshotReq,    \* the snapshot request: its position and its answer
    tempFiles,      \* the files in os.TempDir()
    now,            \* cleanup worker: the wall clock, in minutes
    tickReady,      \* cleanup worker: a tick waits in ticker.C
    cleanupCh,      \* cleanup worker: the names waiting in the channel, oldest first
    resources,      \* cleanup worker: its map from name to expiry
    enqueuedAt,     \* history: when each name was last sent on the channel
    dropGap,        \* history: at the last drop of each name, the minutes since that send
    sock,           \* socket server: its http server, its map, its WaitGroup, the Stop call
    conn,           \* socket server: each client connection and its handler
    insights,       \* MCP server: the insights of the memo
    appender,       \* MCP server: each append_insight call
    memo,           \* MCP server: the memo a client has read last
    app,            \* cmd/app: what Run has created, the position of Shutdown, its steps so far
    proc,           \* the process: the position of main, its exit code and what ended it
    limiter,        \* API: the mode and the rate of the router, each client's window, the last answer
    ups,            \* API: each concurrent upload request
    tmpfs,          \* os.TempDir(): the file at each path and the bytes of each file
    tool,           \* MCP server: the read_query call: its position, its text and its result
    lq,             \* API: the /query request: its text, its limit, the text sent and the answer
    watcher         \* socket server: the Stop call of the goroutine of Start

dbVars == <<sqlClosed, tables, walDirty, fileVer, fileExists, muWriter, muReaders,
            ctxCancelled, dbCtxCancelled, query, closer, snap, csv, worker, trail>>

copyVars == <<copyIn, source, cuts, copyPc, ctx>>

authVars == <<apiKeyEnv, request, response, nServed>>

uploadVars == <<upload, snapshotReq, tempFiles>>

cleanVars == <<now, tickReady, cleanupCh, resources, enqueuedAt, dropGap>>

sockVars == <<sock, conn>>

memoVars == <<insights, appender, memo>>

moreVars == <<proc, limiter, ups, tmpfs, tool, lq, watcher>>

appVars == <<sockVars, memoVars, app, moreVars>>

notSockVars == <<dbVars, copyVars, authVars, uploadVars, cleanVars, memoVars, app, moreVars>>
notMemoVars == <<dbVars, copyVars, authVars, uploadVars, cleanVars, sockVars, app, moreVars>>
notAppVars == <<copyVars, authVars, uploadVars, cleanVars, sockVars, memoVars, moreVars>>
notProcVars == <<copyVars, authVars, uploadVars, cleanVars, sockVars, memoVars, limiter, ups, tmpfs, tool, lq, watcher>>
notMoreVars == <<dbVars, copyVars, authVars, uploadVars, cleanVars, sockVars, memoVars, app>>
notLimiter == <<notMoreVars, proc, ups, tmpfs, tool, lq, watcher>>
notTables == <<sqlClosed, walDirty, fileVer, fileExists, muWriter, muReaders, ctxCancelled,
               dbCtxCancelled, query, closer, snap, csv, worker, trail>>
notUploaders == <<notTables, copyVars, authVars, uploadVars, cleanVars, sockVars, memoVars, app,
                  proc, limiter, tool, lq, watcher>>
notTool == <<copyVars, authVars, uploadVars, cleanVars, sockVars, memoVars, app, proc, limiter,
             ups, tmpfs, lq, watcher>>
notQueryRequest == <<notMoreVars, proc, limiter, ups, tmpfs, tool, watcher>>
notWatcher == <<dbVars, copyVars, authVars, uploadVars, cleanVars, memoVars, app, proc, limiter,
                ups, tmpfs, tool, lq>>
stopVars == <<sock, conn, watcher>>

vars == <<dbVars, copyVars, authVars, uploadVars, cleanVars, appVars>>

(***************************************************************************)
(* Bounds of the model.                                                    *)
(***************************************************************************)
NumQueries == 1
NumCloses == 2
NumSnapshots == 1
MaxQueryLen == 3

Queries == 1..NumQueries
Closers == 1..NumCloses
Snapshots == 1..NumSnapshots

NoOne == <<"none", 0>>

RECURSIVE SeqsUpTo(_, _)
SeqsUpTo(S, n) ==
    IF n = 0 THEN {<<>>}
    ELSE LET shorter == SeqsUpTo(S, n - 1)
         IN  shorter \cup {Append(s, x) : s \in {t \in shorter : Len(t) = n - 1}, x \in S}

(***************************************************************************)
(* Lexemes.  Each statement lexeme stands for one complete statement:      *)
(*   SELECT      SELECT 1                                                  *)
(*   CREATE      CREATE TABLE users (id INT)                               *)
(*   DROP        DROP TABLE users                                          *)
(*   DROPIF      DROP TABLE IF EXISTS users                                *)
(*   ALTER       ALTER TABLE users ADD COLUMN hacked TEXT                  *)
(*   DELETE      DELETE FROM users                                         *)
(*   CHECKPOINT  CHECKPOINT                                                *)
(*   BAD         text the engine's parser rejects                          *)
(* The deny-list lexemes are the texts the patterns of validateQuery look  *)
(* for: UNION, OR 1=1, --, the two ends of a block comment, EXEC and       *)
(* xp_cmdshell.                                                            *)
(***************************************************************************)
StmtLexemes == {"SELECT", "CREATE", "DROP", "DROPIF", "ALTER", "DELETE", "CHECKPOINT", "BAD"}
DenyLexemes == {"UNION", "OR1=1", "--", "/*", "*/", "EXEC", "XP_"}
CharLexemes == {";", "'", "\"", "\\", " "}
UserTable == <<"users">>

(***************************************************************************)
(* errors, by the text they carry                                          *)
(***************************************************************************)
NoErr == "nil"
ErrNilDB == "database connection is closed"
ErrSqlClosed == "sql: database is closed"
ErrValidation == "invalid SQL query: potentially malicious SQL pattern detected"
ErrNoValid == "no valid queries to execute"
ErrEngine == "engine error"

\* strings.Contains(err.Error(), "database is closed")
ContainsDatabaseIsClosed(e) == e = ErrSqlClosed

(***************************************************************************)
(* validateQuery: the deny-list, matched against the whole submission.     *)
(* The result is the number of the first pattern that matches, 0 for none. *)
(***************************************************************************)
Has(q, lx) == \E i \in 1..Len(q) : q[i] = lx
HasThenLater(q, a, b) == \E i \in 1..Len(q) : \E j \in (i + 1)..Len(q) : q[i] = a /\ q[j] = b

suspiciousPatterns(q) ==
    <<HasThenLater(q, "UNION", "SELECT"),
      Has(q, "OR1=1"),
      Has(q, "--"),
      HasThenLater(q, "/*", "*/"),
      Has(q, "EXEC"),
      Has(q, "XP_")>>

validateQuery(q) ==
    LET m == suspiciousPatterns(q)
        hits == {p \in 1..Len(m) : m[p]}
    IN  IF hits = {} THEN 0 ELSE CHOOSE p \in hits : \A r \in hits : p <= r

(***************************************************************************)
(* splitQueryBySemicolon                                                   *)
(***************************************************************************)
\* the loop had it appended a segment at a semicolon only when it is not empty
RECURSIVE SplitFromNonEmpty(_, _, _, _, _, _)
SplitFromNonEmpty(q, i, currentQuery, inQuote, escapeNext, queries) ==
    IF i > Len(q)
    THEN IF Len(currentQuery) > 0 THEN Append(queries, currentQuery) ELSE queries
    ELSE LET char == q[i]
         IN  IF escapeNext
             THEN SplitFromNonEmpty(q, i + 1, Append(currentQuery, char), inQuote, FALSE, queries)
             ELSE IF char = "\\"
             THEN SplitFromNonEmpty(q, i + 1, Append(currentQuery, char), inQuote, TRUE, queries)
             ELSE IF char \in {"\"", "'"}
             THEN SplitFromNonEmpty(q, i + 1, Append(currentQuery, char), ~inQuote, FALSE, queries)
             ELSE IF char = ";" /\ ~inQuote
             THEN SplitFromNonEmpty(q, i + 1, <<>>, inQuote, FALSE,
                                    IF Len(currentQuery) > 0 THEN Append(queries, currentQuery)
                                    ELSE queries)
             ELSE SplitFromNonEmpty(q, i + 1, Append(currentQuery, char), inQuote, FALSE, queries)

RECURSIVE SplitFrom(_, _, _, _, _, _)
SplitFrom(q, i, currentQuery, inQuote, escapeNext, queries) ==
    IF i > Len(q)
    THEN IF Len(currentQuery) > 0 THEN Append(queries, currentQuery) ELSE queries
    ELSE LET char == q[i]
         IN  IF escapeNext
             THEN SplitFrom(q, i + 1, Append(currentQuery, char), inQuote, FALSE, queries)
             ELSE IF char = "\\"
             THEN SplitFrom(q, i + 1, Append(currentQuery, char), inQuote, TRUE, queries)
             ELSE IF char \in {"\"", "'"}
             THEN SplitFrom(q, i + 1, Append(currentQuery, char), ~inQuote, FALSE, queries)
             ELSE IF char = ";" /\ ~inQuote
             THEN SplitFrom(q, i + 1, <<>>, inQuote, FALSE, Append(queries, currentQuery))
             ELSE SplitFrom(q, i + 1, Append(currentQuery, char), inQuote, FALSE, queries)

splitQueryBySemicolon(q) == SplitFrom(q, 1, <<>>, FALSE, FALSE, <<>>)

\* strings.TrimSpace
RECURSIVE TrimLeft(_)
TrimLeft(s) == IF s # <<>> /\ Head(s) = " " THEN TrimLeft(Tail(s)) ELSE s
RECURSIVE TrimRight(_)
TrimRight(s) ==
    IF s # <<>> /\ s[Len(s)] = " " THEN TrimRight(SubSeq(s, 1, Len(s) - 1)) ELSE s
TrimSpace(s) == TrimRight(TrimLeft(s))

\* the loop of ExecuteQuery skips the segments that are empty once trimmed:
\* the first index from i on that it does not skip, Len + 1 when there is none
RECURSIVE NextSegment(_, _)
NextSegment(queries, i) ==
    IF i > Len(queries) THEN i
    ELSE IF TrimSpace(queries[i]) = <<>> THEN NextSegment(queries, i + 1)
    ELSE i

(***************************************************************************)
(* The engine, as the handle sees it.  A segment is a statement the        *)
(* engine can prepare when, trimmed, it is one statement lexeme other than *)
(* BAD.                                                                    *)
(***************************************************************************)
\* strings.ToUpper, lexeme by lexeme: "select" is SELECT 1 in lower case,
\* "SELECT_limits" is SELECT * FROM limits
ToUpperLexeme(l) ==
    IF l = "select" THEN "SELECT"
    ELSE IF l = "SELECT_limits" THEN "SELECT_LIMITS"
    ELSE l
ToUpper(s) == [i \in 1..Len(s) |-> ToUpperLexeme(s[i])]

\* the engine reads its keywords in either case
StmtKind(segment) ==
    LET s == ToUpper(TrimSpace(segment))
    IN  IF Len(s) = 1 /\ s[1] \in StmtLexemes THEN s[1] ELSE "BAD"

Mutating == {"CREATE", "DROP", "DROPIF", "ALTER", "DELETE"}

\* whether the engine runs the prepared statement or fails it
EngineAccepts(kind, tbls) ==
    CASE kind = "CREATE" -> UserTable \notin tbls
      [] kind \in {"DROP", "ALTER", "DELETE"} -> UserTable \in tbls
      [] OTHER -> TRUE

EngineTables(kind, tbls) ==
    CASE kind = "CREATE" -> tbls \cup {UserTable}
      [] kind \in {"DROP", "DROPIF"} -> tbls \ {UserTable}
      [] OTHER -> tbls


(***************************************************************************)
(* Names of tables and of cleanup resources: sequences of name lexemes.    *)
(* "tmp_import_" is one lexeme, "-" stands for any rune outside            *)
(* [A-Za-z0-9_], "tmp-import-" for "tmp_import_" with such runes in the    *)
(* place of its underscores.                                               *)
(***************************************************************************)
sanitizeRune(r) == IF r = "-" THEN "_" ELSE IF r = "tmp-import-" THEN "tmp_import_" ELSE r
sanitizeTableName(tableName) == [i \in 1..Len(tableName) |-> sanitizeRune(tableName[i])]
HasPrefixTmpImport(resource) == Len(resource) >= 1 /\ resource[1] = "tmp_import_"

CsvTables == {<<"t", "-">>}
CleanupNames == {<<"tmp_import_", "1">>, <<"tmp-import-", "2">>, <<"t", "_">>}
\* the names whose raw and sanitized forms agree on the prefix
PlainNames == {<<"tmp_import_", "1">>, <<"t", "_">>}

(***************************************************************************)
(* The state of the handle, read off the Close calls: Closing from the     *)
(* moment a Close holds the lock until the first Close returns.            *)
(***************************************************************************)
CloseReturned == \E c \in Closers : closer[c].pc = "done"
CloseRunning == \E c \in Closers : closer[c].pc = "closing"
HandleState ==
    IF CloseReturned THEN "Closed" ELSE IF CloseRunning THEN "Closing" ELSE "Open"

\* Close never assigns db.db, and NewDuckDBConfig returns a handle only with
\* db.db set: the nil checks of the operations never fire
dbFieldNil == FALSE

MutexFree == muWriter = NoOne /\ muReaders = {}

\* the trail once the handle is in state st
Visit(tr, st) == IF tr[Len(tr)] = st THEN tr ELSE Append(tr, st)

(***************************************************************************)
(* ExecuteQuery.  The call takes no lock.  Its steps that touch shared     *)
(* state are db.db.Prepare and stmt.Query of prepareAndExecuteQuery, once  *)
(* per segment; the validation, the split and the loop's bookkeeping are   *)
(* local and run with the step before them.                                *)
(***************************************************************************)
IdleQuery ==
    [pc |-> "idle", text |-> <<>>, queries |-> <<>>, i |-> 0, sent |-> <<>>,
     err |-> NoErr, res |-> 0, afterClose |-> FALSE, atCancel |-> FALSE, admit |-> {},
     failedAt |-> 0]

\* history: the first segment of the call that failed
Failed(qr) == IF qr.failedAt = 0 THEN [qr EXCEPT !.failedAt = qr.i] ELSE qr

\* what ExecuteQuery returns before it sends anything to the engine
AdmissionFirstSegmentOnly(text) ==
    IF dbFieldNil THEN ErrNilDB
    ELSE IF splitQueryBySemicolon(text) # <<>>
            /\ validateQuery(splitQueryBySemicolon(text)[1]) # 0 THEN ErrValidation
    ELSE NoErr

Admission(text) ==
    IF dbFieldNil THEN ErrNilDB
    ELSE IF validateQuery(text) # 0 THEN ErrValidation
    ELSE NoErr

\* the call's record once segment qr.i has failed with e: the loop returns
AfterFailureContinue(qr, e) ==
    LET next == NextSegment(qr.queries, qr.i + 1)
    IN  IF next > Len(qr.queries)
        THEN [qr EXCEPT !.pc = "done", !.err = e, !.res = 0]
        ELSE [qr EXCEPT !.pc = "prepare", !.i = next]

AfterFailure(qr, e) == [qr EXCEPT !.pc = "done", !.err = e, !.res = 0]

\* the loop had it kept the first result it got
AfterSuccessKeepFirst(qr) ==
    LET next == NextSegment(qr.queries, qr.i + 1)
        kept == IF qr.res = 0 THEN qr.i ELSE qr.res
    IN  IF next > Len(qr.queries)
        THEN [qr EXCEPT !.pc = "done", !.err = NoErr, !.res = kept]
        ELSE [qr EXCEPT !.pc = "prepare", !.i = next, !.res = kept]

\* the call's record once segment qr.i has run: the next segment, or the return
AfterSuccess(qr) ==
    LET next == NextSegment(qr.queries, qr.i + 1)
    IN  IF next > Len(qr.queries)
        THEN [qr EXCEPT !.pc = "done", !.err = NoErr, !.res = qr.i]
        ELSE [qr EXCEPT !.pc = "prepare", !.i = next, !.res = qr.i]

ExecuteQuery(q, inputs) ==
    /\ query[q].pc = "idle"
    /\ \E text \in inputs :
         LET adm == Admission(text)
             segs == splitQueryBySemicolon(text)
             first == NextSegment(segs, 1)
             called == [query[q] EXCEPT !.text = text, !.afterClose = CloseReturned]
         IN  query' = [query EXCEPT ![q] =
                 IF adm # NoErr THEN [called EXCEPT !.pc = "done", !.err = adm]
                 ELSE IF first > Len(segs)
                 THEN [called EXCEPT !.pc = "done", !.queries = segs, !.err = ErrNoValid]
                 ELSE [called EXCEPT !.pc = "prepare", !.queries = segs, !.i = first]]
    /\ UNCHANGED <<sqlClosed, tables, walDirty, fileVer, fileExists, muWriter, muReaders,
                   ctxCancelled, dbCtxCancelled, closer, snap, csv, worker, trail>>

\* db.db.Prepare(query): database/sql refuses on a closed DB, else the engine parses
Prepare(q) ==
    /\ query[q].pc = "prepare"
    /\ LET qr == query[q]
           handed == [qr EXCEPT !.sent = Append(@, qr.i), !.admit = @ \cup {HandleState}]
       IN  query' = [query EXCEPT ![q] =
               IF sqlClosed THEN AfterFailure(Failed(qr), ErrSqlClosed)
               ELSE IF StmtKind(qr.queries[qr.i]) = "BAD"
               THEN AfterFailure(Failed(handed), ErrEngine)
               ELSE [handed EXCEPT !.pc = "exec"]]
    /\ UNCHANGED <<sqlClosed, tables, walDirty, fileVer, fileExists, muWriter, muReaders,
                   ctxCancelled, dbCtxCancelled, closer, snap, csv, worker, trail>>

\* stmt.Query() and the reading of its rows: the statement takes effect
StmtQuery(q) ==
    /\ query[q].pc = "exec"
    /\ LET qr == query[q]
           kind == StmtKind(qr.queries[qr.i])
           runs == ~sqlClosed /\ EngineAccepts(kind, tables)
       IN  /\ query' = [query EXCEPT ![q] =
                  IF sqlClosed THEN AfterFailure(Failed(qr), ErrSqlClosed)
                  ELSE IF ~EngineAccepts(kind, tables) THEN AfterFailure(Failed(qr), ErrEngine)
                  ELSE AfterSuccess(qr)]
           /\ tables' = IF runs THEN EngineTables(kind, tables) ELSE tables
           /\ walDirty' = IF runs /\ kind \in Mutating THEN TRUE
                          ELSE IF runs /\ kind = "CHECKPOINT" THEN FALSE
                          ELSE walDirty
           /\ fileVer' = IF runs /\ kind = "CHECKPOINT" /\ walDirty THEN fileVer + 1
                         ELSE fileVer
    /\ UNCHANGED <<sqlClosed, fileExists, muWriter, muReaders,
                   ctxCancelled, dbCtxCancelled, closer, snap, csv, worker, trail>>

(***************************************************************************)
(* Close: the write lock, cancelFunc, db.db.Close, the removal of the      *)
(* engine file and of its write-ahead file.                                *)
(***************************************************************************)
IdleClose == [pc |-> "idle", err |-> NoErr]
ErrCloseConn == "failed to close database connection"

CloseLock(c) ==
    /\ closer[c].pc = "idle"
    /\ MutexFree
    /\ muWriter' = <<"close", c>>
    /\ dbCtxCancelled' = TRUE
    /\ closer' = [closer EXCEPT ![c].pc = "closing"]
    /\ trail' = Visit(trail, IF CloseReturned THEN "Closed" ELSE "Closing")
    /\ UNCHANGED <<sqlClosed, tables, walDirty, fileVer, fileExists, muReaders,
                   ctxCancelled, query, snap, csv, worker>>

\* Close had it reported a handle that is closed already
CloseFinishStrict(c) ==
    /\ closer[c].pc = "closing"
    /\ \E driverErr \in (IF sqlClosed THEN {TRUE} ELSE BOOLEAN) :
         /\ closer' = [closer EXCEPT ![c] =
                [pc |-> "done", err |-> IF driverErr THEN ErrCloseConn ELSE NoErr]]
         /\ fileExists' = IF driverErr THEN fileExists ELSE FALSE
    /\ sqlClosed' = TRUE
    /\ muWriter' = NoOne
    /\ trail' = Visit(trail, "Closed")
    /\ UNCHANGED <<tables, walDirty, fileVer, muReaders,
                   ctxCancelled, dbCtxCancelled, query, snap, csv, worker>>

\* database/sql's Close returns nil at once on a DB that is closed already;
\* otherwise it marks the DB closed and may report the driver's error
CloseFinish(c) ==
    /\ closer[c].pc = "closing"
    /\ \E driverErr \in (IF sqlClosed THEN {FALSE} ELSE BOOLEAN) :
         /\ closer' = [closer EXCEPT ![c] =
                [pc |-> "done", err |-> IF driverErr THEN ErrCloseConn ELSE NoErr]]
         /\ fileExists' = IF driverErr THEN fileExists ELSE FALSE
    /\ sqlClosed' = TRUE
    /\ muWriter' = NoOne
    /\ trail' = Visit(trail, "Closed")
    /\ UNCHANGED <<tables, walDirty, fileVer, muReaders,
                   ctxCancelled, dbCtxCancelled, query, snap, csv, worker>>

(***************************************************************************)
(* CreateSnapshot: the read lock, CHECKPOINT, snapshot.CopyFile.  The file *)
(* is copied in two reads.                                                 *)
(***************************************************************************)
IdleSnap == [pc |-> "idle", ckpt |-> 0, copy |-> <<>>, err |-> NoErr, afterClose |-> FALSE]
ErrCopyFile == "failed to copy database file"

SnapRLock(s) ==
    /\ snap[s].pc = "idle"
    /\ muWriter = NoOne
    /\ muReaders' = muReaders \cup {s}
    /\ snap' = [snap EXCEPT ![s] =
           IF dbFieldNil THEN [@ EXCEPT !.pc = "done", !.err = ErrNilDB]
           ELSE [@ EXCEPT !.pc = "locked", !.afterClose = CloseReturned]]
    /\ UNCHANGED <<sqlClosed, tables, walDirty, fileVer, fileExists, muWriter,
                   ctxCancelled, dbCtxCancelled, query, closer, csv, worker, trail>>

SnapCheckpoint(s) ==
    /\ snap[s].pc = "locked"
    /\ IF sqlClosed
       THEN /\ snap' = [snap EXCEPT ![s].pc = "done", ![s].err = ErrSqlClosed]
            /\ muReaders' = muReaders \ {s}
            /\ UNCHANGED <<walDirty, fileVer>>
       ELSE /\ fileVer' = IF walDirty THEN fileVer + 1 ELSE fileVer
            /\ walDirty' = FALSE
            /\ snap' = [snap EXCEPT ![s].pc = "copy", ![s].ckpt = fileVer']
            /\ UNCHANGED muReaders
    /\ UNCHANGED <<sqlClosed, tables, fileExists, muWriter,
                   ctxCancelled, dbCtxCancelled, query, closer, csv, worker, trail>>

SnapCopyFirst(s) ==
    /\ snap[s].pc = "copy"
    /\ \E destOk \in BOOLEAN :
         IF fileExists /\ destOk
         THEN /\ snap' = [snap EXCEPT ![s].pc = "copy2", ![s].copy = <<fileVer>>]
              /\ UNCHANGED muReaders
         ELSE /\ snap' = [snap EXCEPT ![s].pc = "done", ![s].err = ErrCopyFile]
              /\ muReaders' = muReaders \ {s}
    /\ UNCHANGED <<sqlClosed, tables, walDirty, fileVer, fileExists, muWriter,
                   ctxCancelled, dbCtxCancelled, query, closer, csv, worker, trail>>

SnapCopyRest(s) ==
    /\ snap[s].pc = "copy2"
    /\ snap' = [snap EXCEPT ![s].pc = "done", ![s].copy = Append(@, fileVer)]
    /\ muReaders' = muReaders \ {s}
    /\ UNCHANGED <<sqlClosed, tables, walDirty, fileVer, fileExists, muWriter,
                   ctxCancelled, dbCtxCancelled, query, closer, csv, worker, trail>>


(***************************************************************************)
(* createTableFromCSVDirectly: the write lock, the override's DROP TABLE   *)
(* IF EXISTS, the CREATE TABLE ... AS SELECT * FROM read_csv(...).         *)
(***************************************************************************)
IdleCsv == [pc |-> "idle", table |-> <<>>, override |-> FALSE, err |-> NoErr,
            afterClose |-> FALSE]

CsvLock ==
    /\ csv.pc = "idle"
    /\ MutexFree
    /\ muWriter' = <<"csv", 1>>
    /\ \E tableName \in CsvTables, override \in BOOLEAN :
         csv' = [csv EXCEPT !.pc = "locked", !.table = tableName, !.override = override,
                            !.afterClose = CloseReturned]
    /\ UNCHANGED <<sqlClosed, tables, walDirty, fileVer, fileExists, muReaders,
                   ctxCancelled, dbCtxCancelled, query, closer, snap, worker, trail>>

CsvCreate ==
    /\ csv.pc = "locked"
    /\ LET name == sanitizeTableName(csv.table)
           dropped == IF csv.override THEN tables \ {name} ELSE tables
           e == IF dbFieldNil THEN ErrNilDB
                ELSE IF sqlClosed THEN ErrSqlClosed
                ELSE IF name \in dropped THEN ErrEngine
                ELSE NoErr
       IN  /\ csv' = [csv EXCEPT !.pc = "done", !.err = e]
           /\ tables' = IF e = NoErr THEN dropped \cup {name}
                        ELSE IF e = ErrEngine THEN dropped
                        ELSE tables
           /\ walDirty' = IF e \in {NoErr, ErrEngine} /\ tables' # tables THEN TRUE
                          ELSE walDirty
    /\ muWriter' = NoOne
    /\ UNCHANGED <<sqlClosed, fileVer, fileExists, muReaders,
                   ctxCancelled, dbCtxCancelled, query, closer, snap, worker, trail>>

(***************************************************************************)
(* startCleanupWorker: the select over ctx.Done, the cleanup channel and   *)
(* the ticker.  An entry is fresh from its enqueue until its 30 minutes    *)
(* have passed, expired after.                                             *)
(***************************************************************************)
IdleWorker ==
    [pc |-> "idle", resources |-> [n \in CleanupNames |-> "absent"], todo |-> {},
     cur |-> <<>>]

WorkerEnqueue(resource) ==
    /\ worker.pc = "idle"
    /\ worker.resources[resource] # "fresh"
    /\ worker' = [worker EXCEPT !.resources[resource] = "fresh"]
    /\ UNCHANGED <<sqlClosed, tables, walDirty, fileVer, fileExists, muWriter, muReaders,
                   ctxCancelled, dbCtxCancelled, query, closer, snap, csv, trail>>

TimePasses ==
    /\ \E resource \in CleanupNames :
         /\ worker.resources[resource] = "fresh"
         /\ worker' = [worker EXCEPT !.resources[resource] = "expired"]
    /\ UNCHANGED <<sqlClosed, tables, walDirty, fileVer, fileExists, muWriter, muReaders,
                   ctxCancelled, dbCtxCancelled, query, closer, snap, csv, trail>>

WorkerTick ==
    /\ worker.pc = "idle"
    /\ LET expired == {n \in CleanupNames : worker.resources[n] = "expired"}
       IN  /\ expired # {}
           /\ worker' = [worker EXCEPT !.pc = "scan", !.todo = expired]
    /\ UNCHANGED <<sqlClosed, tables, walDirty, fileVer, fileExists, muWriter, muReaders,
                   ctxCancelled, dbCtxCancelled, query, closer, snap, csv, trail>>

\* the record of the worker once it has deleted resource from its map
Deleted(w, resource) ==
    [w EXCEPT !.resources[resource] = "absent",
              !.todo = @ \ {resource},
              !.cur = <<>>,
              !.pc = IF w.todo \ {resource} = {} THEN "idle" ELSE "scan"]

\* an expired entry that is no temporary table is only deleted
WorkerForget ==
    /\ worker.pc = "scan"
    /\ \E resource \in worker.todo :
         /\ ~HasPrefixTmpImport(resource)
         /\ worker' = Deleted(worker, resource)
    /\ UNCHANGED <<sqlClosed, tables, walDirty, fileVer, fileExists, muWriter, muReaders,
                   ctxCancelled, dbCtxCancelled, query, closer, snap, csv, trail>>

WorkerLockUnguarded ==
    /\ worker.pc = "scan"
    /\ \E resource \in worker.todo :
         /\ HasPrefixTmpImport(resource)
         /\ worker' = [worker EXCEPT !.pc = "dropping", !.cur = resource]
    /\ UNCHANGED <<sqlClosed, tables, walDirty, fileVer, fileExists, muWriter, muReaders,
                   ctxCancelled, dbCtxCancelled, query, closer, snap, csv, trail>>

WorkerLock ==
    /\ worker.pc = "scan"
    /\ MutexFree
    /\ \E resource \in worker.todo :
         /\ HasPrefixTmpImport(resource)
         /\ worker' = [worker EXCEPT !.pc = "dropping", !.cur = resource]
    /\ muWriter' = <<"worker", 1>>
    /\ UNCHANGED <<sqlClosed, tables, walDirty, fileVer, fileExists, muReaders,
                   ctxCancelled, dbCtxCancelled, query, closer, snap, csv, trail>>

\* DROP TABLE IF EXISTS on the sanitized name; its error is only logged
WorkerDrop ==
    /\ worker.pc = "dropping"
    /\ LET name == sanitizeTableName(worker.cur)
       IN  /\ tables' = IF sqlClosed THEN tables ELSE tables \ {name}
           /\ walDirty' = IF ~sqlClosed /\ name \in tables THEN TRUE ELSE walDirty
    /\ muWriter' = NoOne
    /\ worker' = Deleted(worker, worker.cur)
    /\ UNCHANGED <<sqlClosed, fileVer, fileExists, muReaders,
                   ctxCancelled, dbCtxCancelled, query, closer, snap, csv, trail>>

WorkerExit ==
    /\ worker.pc = "idle"
    /\ ctxCancelled
    /\ worker' = [worker EXCEPT !.pc = "exited"]
    /\ UNCHANGED <<sqlClosed, tables, walDirty, fileVer, fileExists, muWriter, muReaders,
                   ctxCancelled, dbCtxCancelled, query, closer, snap, csv, trail>>

(***************************************************************************)
(* Shutdown of cmd/app cancels the root context.                           *)
(***************************************************************************)
CancelRoot ==
    /\ ~ctxCancelled
    /\ ctxCancelled' = TRUE
    /\ query' = [q \in Queries |->
           [query[q] EXCEPT !.atCancel = query[q].pc \in {"prepare", "exec"}]]
    /\ UNCHANGED <<sqlClosed, tables, walDirty, fileVer, fileExists, muWriter, muReaders,
                   dbCtxCancelled, closer, snap, csv, worker, trail>>

(***************************************************************************)
(* The bounded copy of pkg/helpers: CopyWithMaxSizeImpl.  A byte is "\n",  *)
(* a plain byte "a", a byte "x" that makes the validator report the line   *)
(* invalid, or a byte "e" on which the validator returns an error.         *)
(***************************************************************************)
MaxInputLen == 4
BufferSize == 2
MaxSize == 3

CopyBytes == {"a", "x", "e", "\n"}

ValidationModeRejectRow == "reject_row"
ValidationModeRejectFile == "reject_file"
ValidationModeIgnore == "ignore"
ValidationModes == {ValidationModeRejectRow, ValidationModeRejectFile, ValidationModeIgnore}

\* the validator argument: nil, one whose errors are plain, one whose errors
\* wrap ErrInvalidBuffer, and "screen", the callback of an upload, which is
\* CSVRowCheckDetailed on every line it is given
Validators == {"nil", "plain", "wraps", "screen"}

EOF == "EOF"
ErrSourceRead == "read error"
ErrDestWrite == "write error"
ErrMaxFileSizeExceeded == "max file size exceeded"
ErrInvalidBuffer == "buffer validation failed"
ErrSuspicious == "buffer validation failed: detected suspicious patterns"
ErrSuspiciousContent == "buffer validation failed: detected suspicious content"
ErrValidator == "validator error"
ErrBufferValidation == "buffer validation error: validator error"

\* the arguments and environment of one call: the bytes of src, the room
\* the writer dst has, the cap maxSize, the validator,
\* ENV_FILE_VALIDATION_MODE.  The calls are those with a sink that takes the
\* whole input and the cap MaxSize, those with a sink that fails after its
\* first byte, and those with a cap of one byte.
CopyInputs ==
    [input : SeqsUpTo(CopyBytes, MaxInputLen), room : {MaxInputLen}, maxSize : {MaxSize},
     validator : Validators, mode : ValidationModes]
    \cup [input : SeqsUpTo(CopyBytes, MaxInputLen), room : {1}, maxSize : {MaxSize},
          validator : {"nil", "screen"}, mode : ValidationModes]
    \cup [input : SeqsUpTo(CopyBytes, MaxInputLen), room : {MaxInputLen}, maxSize : {1},
          validator : {"nil", "screen"}, mode : {ValidationModeRejectFile}]

NoCopy ==
    [input |-> <<>>, room |-> 0, maxSize |-> 1, validator |-> "nil",
     mode |-> ValidationModeRejectFile]

NewContext ==
    [LineBuffer |-> <<>>, CurrentLine |-> 0, Written |-> 0, HasHeader |-> TRUE,
     ColumnMap |-> <<>>, ValidationIssue |-> 0, ValidationWarnings |-> 0,
     Destination |-> <<>>, calls |-> <<>>, err |-> NoErr]

IndexNewline(buf) ==
    IF Has(buf, "\n")
    THEN CHOOSE i \in 1..Len(buf) : buf[i] = "\n" /\ \A j \in 1..(i - 1) : buf[j] # "\n"
    ELSE 0

\* readNextLine had it handed out whatever is buffered as a line
readNextLineUnframed(c) ==
    [line |-> c.LineBuffer, eof |-> c.LineBuffer = <<>>,
     ctx |-> [c EXCEPT !.LineBuffer = <<>>]]

readNextLine(c) ==
    LET i == IndexNewline(c.LineBuffer)
    IN  IF i = 0
        THEN [line |-> c.LineBuffer, eof |-> TRUE, ctx |-> c]
        ELSE [line |-> SubSeq(c.LineBuffer, 1, i), eof |-> FALSE,
              ctx |-> [c EXCEPT !.LineBuffer = SubSeq(@, i + 1, Len(@))]]

writeDataFromContext(data, c) ==
    LET bytesRead == Len(data)
        room == copyIn.room - Len(c.Destination)
        bytesWritten == IF bytesRead <= room THEN bytesRead ELSE room
        written == c.Written + bytesWritten
        c1 == [c EXCEPT !.Destination = @ \o SubSeq(data, 1, bytesWritten),
                        !.Written = written,
                        !.calls = Append(@, [op |-> "write", n |-> c.CurrentLine, data |-> data])]
    IN  [c1 EXCEPT !.err = IF written > copyIn.maxSize THEN ErrMaxFileSizeExceeded
                           ELSE IF bytesWritten < bytesRead THEN ErrDestWrite
                           ELSE NoErr]

splitCSVLine(line) ==
    IF line # <<>> /\ line[Len(line)] = "\n" THEN <<SubSeq(line, 1, Len(line) - 1)>> ELSE <<line>>

parseHeaderLine(line, c) == [c EXCEPT !.ColumnMap = splitCSVLine(line)]

\* errors.Is(e, ErrInvalidBuffer)
IsErrInvalidBuffer(e) == e \in {ErrInvalidBuffer, ErrSuspicious, ErrSuspiciousContent}

\* a row with a flagged byte is reported unsafe, with an issue and with an
\* error that wraps ErrInvalidBuffer
CSVRowCheckDetailed(rowData) ==
    IF Has(rowData, "x")
    THEN [isValid |-> FALSE, issue |-> TRUE, err |-> ErrSuspiciousContent]
    ELSE [isValid |-> TRUE, issue |-> FALSE, err |-> NoErr]

Validator(data) ==
    IF copyIn.validator = "screen" THEN CSVRowCheckDetailed(data)
    ELSE IF Has(data, "e")
    THEN [isValid |-> FALSE, issue |-> FALSE,
          err |-> IF copyIn.validator = "wraps" THEN ErrInvalidBuffer ELSE ErrValidator]
    ELSE IF Has(data, "x") THEN [isValid |-> FALSE, issue |-> TRUE, err |-> NoErr]
    ELSE [isValid |-> TRUE, issue |-> FALSE, err |-> NoErr]

(***************************************************************************)
(* The validator copyFileData hands to the copy.  What chardet detects in  *)
(* the bytes and what ValidateCSVFileFromData finds in them are attributes *)
(* of the uploaded file.                                                   *)
(***************************************************************************)
ErrInvalidEncoding == "invalid encoding"
ErrCSVValidation == "CSV validation error"
ErrInvalidCSVStructure == "invalid CSV structure"

supportedEncodings == {"utf-8", "utf-16"}
isEncodingSupported(encoding) == encoding = "" \/ encoding \in supportedEncodings

\* the error of validateEncodingFromData, or NoErr
validateEncodingFromData(data, userSpecifiedEncoding, detected) ==
    IF ~isEncodingSupported(userSpecifiedEncoding) THEN "unsupported encoding"
    ELSE IF Len(data) = 0 THEN NoErr
    ELSE IF userSpecifiedEncoding \in {"", detected} THEN NoErr
    ELSE "file encoding mismatch"

\* the closure validationWrapper of copyFileData, for the file of the upload
\* request; its flag validatedFileFormat is false when the second branch is
\* first entered
validationWrapper(data, lineNumber) ==
    IF lineNumber > 0 THEN CSVRowCheckDetailed(data)
    ELSE IF ~CSVRowCheckDetailed(data).isValid
    THEN [isValid |-> FALSE, issue |-> TRUE, err |-> ErrInvalidBuffer]
    ELSE IF Len(data) < 1024 /\ upload.req.filename = "test"
    THEN [isValid |-> TRUE, issue |-> FALSE, err |-> NoErr]
    ELSE IF validateEncodingFromData(data, upload.req.encoding, upload.req.detected) # NoErr
    THEN [isValid |-> FALSE, issue |-> FALSE, err |-> ErrInvalidEncoding]
    ELSE IF upload.req.structure = "error"
    THEN [isValid |-> FALSE, issue |-> FALSE, err |-> ErrCSVValidation]
    ELSE IF upload.req.structure = "inconsistent"
    THEN [isValid |-> FALSE, issue |-> TRUE, err |-> ErrInvalidCSVStructure]
    ELSE [isValid |-> TRUE, issue |-> FALSE, err |-> NoErr]

\* handleValidationError had it looked at the mode before the kind of error
handleValidationErrorByMode(validationErr, c) ==
    IF copyIn.mode = ValidationModeRejectFile
    THEN [skip |-> FALSE, ctx |-> [c EXCEPT !.err = validationErr]]
    ELSE [skip |-> FALSE, ctx |-> [c EXCEPT !.ValidationWarnings = @ + 1]]

handleValidationError(validationErr, c) ==
    IF IsErrInvalidBuffer(validationErr)
    THEN [skip |-> FALSE, ctx |-> [c EXCEPT !.err = validationErr]]
    ELSE IF copyIn.mode = ValidationModeRejectFile
    THEN [skip |-> FALSE, ctx |-> [c EXCEPT !.err = ErrBufferValidation]]
    ELSE [skip |-> FALSE, ctx |-> [c EXCEPT !.ValidationWarnings = @ + 1]]

handleInvalidContent(c) ==
    CASE copyIn.mode = ValidationModeRejectFile ->
             [skip |-> FALSE, ctx |-> [c EXCEPT !.err = ErrSuspicious]]
      [] copyIn.mode = ValidationModeRejectRow ->
             [skip |-> TRUE, ctx |-> [c EXCEPT !.ValidationWarnings = @ + 1]]
      [] copyIn.mode = ValidationModeIgnore ->
             [skip |-> FALSE, ctx |-> [c EXCEPT !.ValidationWarnings = @ + 1]]
      [] OTHER -> [skip |-> FALSE, ctx |-> [c EXCEPT !.err = ErrSuspicious]]

validateContent(data, c) ==
    IF copyIn.validator = "nil" THEN [skip |-> FALSE, ctx |-> c]
    ELSE LET v == IF copyIn.validator = "wrapper"
                  THEN validationWrapper(data, c.CurrentLine)
                  ELSE Validator(data)
             c1 == [c EXCEPT !.calls = Append(@, [op |-> "validate", n |-> c.CurrentLine,
                                                   data |-> data]),
                             !.ValidationIssue = IF v.issue THEN c.CurrentLine ELSE @]
         IN  IF v.err # NoErr THEN handleValidationError(v.err, c1)
             ELSE IF ~v.isValid /\ v.issue THEN handleInvalidContent(c1)
             ELSE [skip |-> FALSE, ctx |-> c1]

shouldSkipWriting(line, c) ==
    IF copyIn.validator = "nil" THEN [skip |-> FALSE, ctx |-> c]
    ELSE validateContent(line, c)

validateAndWrite(line, c) ==
    IF Len(line) = 0 THEN c
    ELSE LET c1 == [c EXCEPT !.CurrentLine = @ + 1]
             s == shouldSkipWriting(line, c1)
         IN  IF c1.CurrentLine = 1 /\ c1.HasHeader
             THEN writeDataFromContext(line, parseHeaderLine(line, c1))
             ELSE IF s.ctx.err # NoErr THEN s.ctx
             ELSE IF s.skip THEN s.ctx
             ELSE writeDataFromContext(line, s.ctx)

RECURSIVE processCompleteLines(_)
processCompleteLines(c) ==
    LET r == readNextLine(c)
        c2 == validateAndWrite(r.line, r.ctx)
    IN  IF r.eof THEN r.ctx
        ELSE IF c2.err # NoErr THEN c2
        ELSE processCompleteLines(c2)

\* Source.Read has returned the next bytesRead bytes of the source and readErr
processNextChunk(bytesRead, readErr, c) ==
    LET c1 == processCompleteLines([c EXCEPT !.LineBuffer = @ \o SubSeq(source, 1, bytesRead)])
    IN  IF bytesRead > 0
        THEN [ctx |-> c1, readErr |-> IF c1.err # NoErr THEN c1.err ELSE readErr]
        ELSE [ctx |-> c, readErr |-> readErr]

\* processRemainingContent had it dropped the bytes left after the last newline
processRemainingContentDropped(c) == c

processRemainingContent(c) ==
    IF Len(c.LineBuffer) > 0 THEN validateAndWrite(c.LineBuffer, c) ELSE c

\* One turn of the loop of processSourceData: one Read of at most BufferSize
\* bytes, the complete lines it brings, and at EOF the pending rest.
processSourceData(bytesRead, readErr) ==
    /\ copyPc = "copying"
    /\ bytesRead <= Len(source)
    /\ readErr = NoErr => bytesRead >= 1
    /\ readErr = EOF => bytesRead = Len(source)
    /\ LET r == processNextChunk(bytesRead, readErr, ctx)
       IN  /\ source' = SubSeq(source, bytesRead + 1, Len(source))
           /\ cuts' = cuts \cup {Len(copyIn.input) - Len(source) + bytesRead}
           /\ IF r.readErr = EOF
              THEN ctx' = processRemainingContent(r.ctx) /\ copyPc' = "done"
              ELSE IF r.readErr # NoErr
              THEN ctx' = [r.ctx EXCEPT !.err = r.readErr] /\ copyPc' = "done"
              ELSE ctx' = r.ctx /\ copyPc' = "copying"
    /\ UNCHANGED copyIn

\* CopyWithMaxSizeImpl has built its context and is about to read
InitCopy ==
    /\ copyIn \in CopyInputs
    /\ source = copyIn.input
    /\ cuts = {}
    /\ copyPc = "copying"
    /\ ctx = NewContext

NoCopyRunning ==
    /\ copyIn = NoCopy
    /\ source = <<>>
    /\ cuts = {}
    /\ copyPc = "off"
    /\ ctx = NewContext

(***************************************************************************)
(* The API key on the three listeners: the gin router of pkg/api (:8080),  *)
(* the WebSocket server of pkg/socket, the mux of pkg/mcp (:8081).         *)
(***************************************************************************)
MaxRequests == 3

HeaderKeys == {"", "k1", "k2"}      \* X-API-Key; "" when the header is absent
EnvKeys == {"", "k1"}               \* API_KEY; "" when unset

StatusOK == 200
StatusNoContent == 204
StatusUnauthorized == 401
StatusNotFound == 404
StatusTooManyRequests == 429

NoHandler == "none"
NoRequest == [surface |-> "none", method |-> "", path |-> "", key |-> ""]
NoResponse == [status |-> 0, handler |-> NoHandler]

IsValidAPIKeyFromHeader(providedKey) ==
    IF apiKeyEnv = "" THEN TRUE ELSE providedKey = apiKeyEnv

APIRoutes ==
    {<<"GET", "/api/v1/healthcheck">>, <<"GET", "/explorer">>,
     <<"POST", "/api/v1/upload">>, <<"POST", "/api/v1/query">>,
     <<"GET", "/api/v1/tables">>, <<"POST", "/api/v1/snapshot">>}

APIRequests ==
    [surface : {"api"}, method : {"GET", "POST", "OPTIONS"},
     path : {r[2] : r \in APIRoutes} \cup {"/other"}, key : HeaderKeys]

\* the middlewares of setupMiddlewares in the order of their r.Use, then the
\* route; a handler's own answer is recorded as 200
ServeAPIResponse(req, limited) ==
    IF req.method = "OPTIONS" THEN [status |-> StatusNoContent, handler |-> NoHandler]
    ELSE IF ~IsValidAPIKeyFromHeader(req.key)
    THEN [status |-> StatusUnauthorized, handler |-> NoHandler]
    ELSE IF limited THEN [status |-> StatusTooManyRequests, handler |-> NoHandler]
    ELSE IF <<req.method, req.path>> \in APIRoutes
    THEN [status |-> StatusOK, handler |-> req.path]
    ELSE [status |-> StatusNotFound, handler |-> NoHandler]

ServeAPI(req, limited) ==
    /\ nServed < MaxRequests
    /\ nServed' = nServed + 1
    /\ request' = req
    /\ response' = ServeAPIResponse(req, limited)
    /\ UNCHANGED apiKeyEnv

SocketRequests == [surface : {"socket"}, method : {"GET"}, path : {"/", "/ws"}, key : HeaderKeys]

\* socket: apiKeyMiddleware around the mux whose "/" is handleWebSocket
ServeSocket(req) ==
    /\ nServed < MaxRequests
    /\ nServed' = nServed + 1
    /\ request' = req
    /\ response' = IF ~IsValidAPIKeyFromHeader(req.key)
                   THEN [status |-> StatusUnauthorized, handler |-> NoHandler]
                   ELSE [status |-> StatusOK, handler |-> "handleWebSocket"]
    /\ UNCHANGED apiKeyEnv

MCPRequests ==
    [surface : {"mcp"}, method : {"GET", "POST"},
     path : {"/health", "/sse", "/message", "/stream", "/other"}, key : HeaderKeys]

\* mcp: what routes() registers on its mux
MCPRoutes ==
    [p \in {"/health", "/sse", "/message", "/stream"} |->
        CASE p = "/health" -> [auth |-> FALSE, handler |-> "healthCheckHandler"]
          [] p = "/sse" -> [auth |-> TRUE, handler |-> "SSEHandler"]
          [] p = "/message" -> [auth |-> FALSE, handler |-> "MessageHandler"]
          [] p = "/stream" -> [auth |-> TRUE, handler |-> "streamableServer"]]

ServeMCP(req) ==
    /\ nServed < MaxRequests
    /\ nServed' = nServed + 1
    /\ request' = req
    /\ response' =
         IF req.path \notin DOMAIN MCPRoutes
         THEN [status |-> StatusNotFound, handler |-> NoHandler]
         ELSE IF MCPRoutes[req.path].auth /\ ~IsValidAPIKeyFromHeader(req.key)
         THEN [status |-> StatusUnauthorized, handler |-> NoHandler]
         ELSE [status |-> StatusOK, handler |-> MCPRoutes[req.path].handler]
    /\ UNCHANGED apiKeyEnv

InitAuth ==
    /\ apiKeyEnv \in EnvKeys
    /\ request = NoRequest
    /\ response = NoResponse
    /\ nServed = 0

NoServer ==
    /\ apiKeyEnv = ""
    /\ request = NoRequest
    /\ response = NoResponse
    /\ nServed = 0

(***************************************************************************)
(* POST /upload: handleCSVUpload, processCsvFileFromHeader, copyFileData,  *)
(* importCsvData.  The copy into the temporary file is the bounded copy    *)
(* above, with validationWrapper as its validator.                         *)
(***************************************************************************)
StatusBadRequest == 400
StatusRequestEntityTooLarge == 413
StatusUnprocessableEntity == 422
StatusInternalServerError == 500

UploadTables == {<<"t", "_">>, <<"t", "-">>}

\* a file of one byte more than the cap
OversizeFile == [i \in 1..(MaxSize + 1) |-> IF i = 2 THEN "\n" ELSE "a"]
UploadFiles == {<<>>, <<"a", "\n", "a">>, <<"a", "\n", "x">>, OversizeFile}

\* the form of a request: a missing table_name is <<>>; detected, structure
\* and mime are what chardet, ValidateCSVFileFromData and mimetype find in
\* the file; fault is the call of the file system that fails.  The requests
\* are those that pass the checks made before the copy, over every file, and
\* those over every way of failing these checks, with one file.
UploadRequests ==
    [tableName : UploadTables, override : BOOLEAN,
     encoding : {"utf-8"}, filename : {"data"},
     content : UploadFiles, detected : {"utf-8", "utf-16"},
     structure : {"ok", "inconsistent", "error"}, mime : {"text/csv"},
     fault : {"none"}]
    \cup [tableName : UploadTables \cup {<<>>}, override : {FALSE},
          encoding : {"utf-8", "utf-16", "latin1"}, filename : {"test", "data"},
          content : {<<"a", "\n", "a">>}, detected : {"utf-8"},
          structure : {"ok"}, mime : {"text/csv", "other"},
          fault : {"none", "open", "create"}]

NoUploadRequest ==
    [tableName |-> <<>>, override |-> FALSE, encoding |-> "", filename |-> "",
     content |-> <<>>, detected |-> "", structure |-> "ok", mime |-> "", fault |-> "none"]

IdleUpload ==
    [pc |-> "idle", req |-> NoUploadRequest, before |-> {}, path |-> <<>>, stmts |-> <<>>,
     status |-> 0, code |-> ""]

\* the path createTempFileForUpload creates
createTempFileForUpload(tableName) == <<"upload_">> \o tableName \o <<".csv">>

\* what handleCSVUpload and processCsvFileFromHeader answer before a byte is
\* copied: the code of the error, or "" when the copy is to start
processCsvFileFromHeader(req) ==
    IF req.tableName = <<>> THEN "INVALID_REQUEST_PARAMETERS"
    ELSE IF ~isEncodingSupported(req.encoding) THEN "UNSUPPORTED_ENCODING"
    ELSE IF req.fault = "open" THEN "FILE_OPEN_ERROR"
    ELSE IF req.filename # "test" /\ Len(req.content) > 0 /\ req.mime # "text/csv"
    THEN "INVALID_FILE_FORMAT"
    ELSE IF req.fault = "create" THEN "TEMP_FILE_CREATION_ERROR"
    ELSE ""

\* the code and the error copyFileData makes of the error of the copy
copyFileData(err) ==
    IF err = NoErr THEN [code |-> "", err |-> NoErr]
    ELSE IF err = ErrMaxFileSizeExceeded
    THEN [code |-> "FILE_SIZE_EXCEEDED", err |-> "file too large"]
    ELSE IF IsErrInvalidBuffer(err)
    THEN [code |-> "SECURITY_VALIDATION_FAILED", err |-> "security validation failed"]
    ELSE IF err = ErrInvalidEncoding THEN [code |-> "INVALID_ENCODING", err |-> err]
    ELSE IF err = ErrCSVValidation THEN [code |-> "CSV_VALIDATION_ERROR", err |-> err]
    ELSE IF err = ErrInvalidCSVStructure THEN [code |-> "INVALID_CSV_STRUCTURE", err |-> err]
    ELSE [code |-> "FILE_COPY_ERROR", err |-> "internal server error while processing file"]

Stmt(op, name) == [op |-> op, name |-> name]
ErrAlreadyExists == "Catalog Error: Table already exists"

\* CreateTableFromCSV on an open handle; readOk: read_csv accepts the file
CreateTableFromCSV(tableName, override, tbls, readOk) ==
    LET name == sanitizeTableName(tableName)
        dropped == IF override THEN tbls \ {name} ELSE tbls
        e == IF name \in dropped THEN ErrAlreadyExists
             ELSE IF ~readOk THEN ErrEngine
             ELSE NoErr
    IN  [tables |-> IF e = NoErr THEN dropped \cup {name} ELSE dropped,
         stmts |-> (IF override THEN <<Stmt("DROP", name)>> ELSE <<>>)
                       \o <<Stmt("CREATE", name)>>,
         err |-> e]

\* the table_count of the query of checkTableExists is positive
checkTableExists(tableName, tbls) == tableName \in tbls

\* PRAGMA table_info(tableName) and SELECT COUNT(*) FROM tableName succeed
getColumnInfo(tableName, tbls) == tableName \in tbls
countRows(tableName, tbls) == tableName \in tbls

directImport(req, tbls, readOk) ==
    LET c == CreateTableFromCSV(req.tableName, req.override, tbls, readOk)
        info == <<Stmt("PRAGMA", req.tableName)>>
        count == <<Stmt("COUNT", req.tableName)>>
    IN  IF c.err # NoErr
        THEN [tables |-> c.tables, stmts |-> c.stmts, code |-> "DIRECT_IMPORT_FAILED",
              err |-> c.err]
        ELSE IF ~getColumnInfo(req.tableName, c.tables)
        THEN [tables |-> c.tables, stmts |-> c.stmts \o info, code |-> "TABLE_INFO_ERROR",
              err |-> ErrEngine]
        ELSE IF ~countRows(req.tableName, c.tables)
        THEN [tables |-> c.tables, stmts |-> c.stmts \o info \o count,
              code |-> "ROW_COUNT_ERROR", err |-> ErrEngine]
        ELSE [tables |-> c.tables, stmts |-> c.stmts \o info \o count, code |-> "",
              err |-> NoErr]

importCsvData(req, tbls, readOk) ==
    LET check == IF req.override THEN <<>> ELSE <<Stmt("EXISTS", req.tableName)>>
        d == directImport(req, tbls, readOk)
    IN  IF ~req.override /\ checkTableExists(req.tableName, tbls)
        THEN [tables |-> tbls, stmts |-> check, status |-> StatusUnprocessableEntity,
              code |-> "DUPLICATE_TABLE_NAME"]
        ELSE IF d.err # NoErr
        THEN [tables |-> d.tables, stmts |-> check \o d.stmts,
              status |-> StatusUnprocessableEntity,
              code |-> IF ~req.override /\ d.err = ErrAlreadyExists
                       THEN "DUPLICATE_TABLE_NAME" ELSE d.code]
        ELSE [tables |-> d.tables, stmts |-> check \o d.stmts, status |-> StatusOK,
              code |-> ""]

\* handleCSVUpload up to the first Read of the copy
handleCSVUpload(req, mode) ==
    /\ upload.pc = "idle"
    /\ snapshotReq.pc = "idle"
    /\ LET code == processCsvFileFromHeader(req)
           path == createTempFileForUpload(req.tableName)
       IN  IF code # ""
           THEN /\ upload' = [upload EXCEPT !.pc = "done", !.req = req,
                                            !.status = StatusBadRequest, !.code = code]
                /\ UNCHANGED <<tempFiles, copyVars>>
           ELSE /\ upload' = [upload EXCEPT !.pc = "copying", !.req = req, !.path = path]
                /\ tempFiles' = tempFiles \cup {path}
                /\ copyIn' = [input |-> req.content, room |-> Len(req.content),
                              maxSize |-> MaxSize, validator |-> "wrapper", mode |-> mode]
                /\ source' = req.content
                /\ cuts' = {}
                /\ copyPc' = "copying"
                /\ ctx' = NewContext
    /\ UNCHANGED <<dbVars, snapshotReq>>

\* handleCSVUpload from the return of the copy to the answer: the answer to
\* a failed copy, or the import, its answer and the deferred cleanupTempFile
handleCSVUploadAfterCopy(readOk) ==
    /\ upload.pc = "copying"
    /\ copyPc = "done"
    /\ MutexFree
    /\ LET copied == copyFileData(ctx.err)
           r == importCsvData(upload.req, tables, readOk)
       IN  IF copied.err # NoErr
           THEN /\ upload' = [upload EXCEPT
                                !.pc = "done", !.before = tables, !.code = copied.code,
                                !.status = IF copied.err = "file too large"
                                           THEN StatusRequestEntityTooLarge
                                           ELSE StatusBadRequest]
                /\ UNCHANGED <<tables, walDirty, tempFiles>>
           ELSE /\ upload' = [upload EXCEPT !.pc = "done", !.before = tables,
                                            !.stmts = r.stmts, !.status = r.status,
                                            !.code = r.code]
                /\ tables' = r.tables
                /\ walDirty' = IF r.tables # tables THEN TRUE ELSE walDirty
                /\ tempFiles' = tempFiles \ {upload.path}
    /\ UNCHANGED <<sqlClosed, fileVer, fileExists, muWriter, muReaders, ctxCancelled,
                   dbCtxCancelled, query, closer, snap, csv, worker, trail>>
    /\ UNCHANGED <<copyVars, snapshotReq>>

(***************************************************************************)
(* POST /snapshot: handleCreateSnapshot.  The outcome is the first call    *)
(* that fails: the binding, os.Create or io.Copy in snapshot.CopyFile, the *)
(* S3 client, the S3 upload; or none.                                      *)
(***************************************************************************)
SnapshotOutcomes == {"bind", "create", "copy", "s3client", "s3upload", "ok"}
SnapshotPath == <<"snapshot-", "timestamp", ".db">>
IdleSnapshotRequest == [pc |-> "idle", outcome |-> "", status |-> 0]

handleCreateSnapshot(outcome) ==
    /\ snapshotReq.pc = "idle"
    /\ upload.pc = "idle"
    /\ MutexFree
    /\ snapshotReq' = [pc |-> "done", outcome |-> outcome,
                       status |-> IF outcome = "bind" THEN StatusBadRequest
                                  ELSE IF outcome = "ok" THEN StatusOK
                                  ELSE StatusInternalServerError]
    /\ IF outcome = "bind"
       THEN UNCHANGED <<walDirty, fileVer>>
       ELSE /\ fileVer' = IF walDirty THEN fileVer + 1 ELSE fileVer
            /\ walDirty' = FALSE
    /\ tempFiles' = IF outcome = "copy" THEN tempFiles \cup {SnapshotPath}
                    ELSE tempFiles \ {SnapshotPath}
    /\ UNCHANGED <<sqlClosed, tables, fileExists, muWriter, muReaders, ctxCancelled,
                   dbCtxCancelled, query, closer, snap, csv, worker, trail>>
    /\ UNCHANGED <<copyVars, authVars, upload>>

NoUpload ==
    /\ upload = IdleUpload
    /\ snapshotReq = IdleSnapshotRequest
    /\ tempFiles = {}

(***************************************************************************)
(* startCleanupWorker with the clock: a name sent on cleanupCh waits in    *)
(* the channel until the select of the worker receives it; the ticker      *)
(* leaves a tick in ticker.C every TickerPeriod minutes; the select takes  *)
(* any of its ready cases.                                                 *)
(***************************************************************************)
TickerPeriod == 5
ExpiryDelay == 30
MaxClock == 45
ChanCap == 2

Never == -1

\* the worker has just been started by NewDuckDBConfig
InitCleanup ==
    /\ now = 0
    /\ tickReady = FALSE
    /\ cleanupCh = <<>>
    /\ resources = [n \in CleanupNames |-> Never]
    /\ enqueuedAt = [n \in CleanupNames |-> Never]
    /\ dropGap = [n \in CleanupNames |-> Never]

\* TickerPeriod minutes pass and the ticker fires; ticker.C holds one tick.
\* A worker that has a case ready takes it before that much time passes.
TimeAdvances ==
    /\ now + TickerPeriod <= MaxClock
    /\ worker.pc = "idle" => ~tickReady /\ cleanupCh = <<>>
    /\ now' = now + TickerPeriod
    /\ tickReady' = TRUE
    /\ UNCHANGED <<cleanupCh, resources, enqueuedAt, dropGap, dbVars>>

\* db.cleanupCh <- resource, by a caller that has created the temporary
\* table it registers
CleanupEnqueue(resource) ==
    /\ Len(cleanupCh) < ChanCap
    /\ cleanupCh' = Append(cleanupCh, resource)
    /\ enqueuedAt' = [enqueuedAt EXCEPT ![resource] = now]
    /\ tables' = IF HasPrefixTmpImport(resource) /\ ~sqlClosed
                 THEN tables \cup {sanitizeTableName(resource)} ELSE tables
    /\ walDirty' = IF tables' # tables THEN TRUE ELSE walDirty
    /\ UNCHANGED <<now, tickReady, resources, dropGap>>
    /\ UNCHANGED <<sqlClosed, fileVer, fileExists, muWriter, muReaders,
                   ctxCancelled, dbCtxCancelled, query, closer, snap, csv, worker, trail>>

\* case resource := <-db.cleanupCh
CleanupReceive ==
    /\ worker.pc = "idle"
    /\ cleanupCh # <<>>
    /\ resources' = [resources EXCEPT ![Head(cleanupCh)] = now + ExpiryDelay]
    /\ cleanupCh' = Tail(cleanupCh)
    /\ UNCHANGED <<now, tickReady, enqueuedAt, dropGap, dbVars>>

\* case <-ticker.C: every entry whose expiry is past is deleted from the
\* map, a temporary table among them is dropped first
CleanupTick ==
    /\ worker.pc = "idle"
    /\ tickReady
    /\ MutexFree
    /\ tickReady' = FALSE
    /\ LET expired == {r \in CleanupNames : resources[r] # Never /\ now > resources[r]}
           toDrop == {r \in expired : HasPrefixTmpImport(r)}
       IN  /\ resources' = [r \in CleanupNames |-> IF r \in expired THEN Never ELSE resources[r]]
           /\ tables' = IF sqlClosed THEN tables
                        ELSE tables \ {sanitizeTableName(r) : r \in toDrop}
           /\ dropGap' = [r \in CleanupNames |->
                             IF r \in toDrop THEN now - enqueuedAt[r] ELSE dropGap[r]]
    /\ walDirty' = IF tables' # tables THEN TRUE ELSE walDirty
    /\ UNCHANGED <<now, cleanupCh, enqueuedAt>>
    /\ UNCHANGED <<sqlClosed, fileVer, fileExists, muWriter, muReaders,
                   ctxCancelled, dbCtxCancelled, query, closer, snap, csv, worker, trail>>

(***************************************************************************)
(* The socket server: Start, Stop and the handler of each WebSocket        *)
(* connection.  A step under Server.mu is one atomic step.  A frame is its *)
(* message type and what json.Unmarshal and processRequest make of its     *)
(* payload: "query" a query event with a query, "empty" a query event     *)
(* without one, "other" an event of another type, "garbage" no JSON.       *)
(***************************************************************************)
NumConns == 2
MaxFrames == 1
MaxPipelined == 2
ShutdownTimeout == 5

Conns == 1..NumConns

MessageTypes == {"text", "binary"}
Payloads == {"query", "empty", "other", "garbage"}
Frames == [type : MessageTypes, payload : Payloads]
NoFrame == [type |-> "none", payload |-> "none", from |-> 0]

NewServer ==
    [httpServer |-> FALSE, listening |-> FALSE, wsConnections |-> {}, wg |-> 0,
     stop |-> "idle", elapsed |-> 0]

NoConn ==
    [pc |-> "none", closed |-> FALSE, peerClosed |-> FALSE, inbox |-> <<>>, nSent |-> 0,
     cur |-> NoFrame, executed |-> 0, responses |-> 0, wire |-> <<>>,
     accepted |-> <<>>, answered |-> <<>>]

\* the connection has been upgraded and its handler has not returned
Established(c) ==
    conn[c].pc \in {"upgraded", "registered", "reading", "processing", "writing", "exiting"}

\* the server has upgraded the connection to a WebSocket
Accepted(c) == conn[c].pc \notin {"none", "upgrading", "failed"}

\* the request is served by a connection net/http still tracks (not hijacked)
Tracked(c) == conn[c].pc = "upgrading"

Start ==
    /\ ~sock.httpServer
    /\ sock.stop = "idle"
    /\ sock' = [sock EXCEPT !.httpServer = TRUE, !.listening = TRUE]
    /\ UNCHANGED conn

\* a client connects and net/http calls handleWebSocket; the clients connect
\* in the order of their numbers
Accept(c) ==
    /\ sock.listening
    /\ conn[c].pc = "none"
    /\ \A d \in Conns : d < c => conn[d].pc # "none"
    /\ conn' = [conn EXCEPT ![c].pc = "upgrading"]
    /\ UNCHANGED sock

Upgrade(c, ok) ==
    /\ conn[c].pc = "upgrading"
    /\ conn' = [conn EXCEPT ![c].pc = IF ok THEN "upgraded" ELSE "failed"]
    /\ UNCHANGED sock

\* s.wsConnections[conn] = struct{}{} under the mutex
Register(c) ==
    /\ conn[c].pc = "upgraded"
    /\ sock' = [sock EXCEPT !.wsConnections = @ \cup {c}]
    /\ conn' = [conn EXCEPT ![c].pc = "registered"]

\* s.wg.Add(1) and the go statement
Spawn(c) ==
    /\ conn[c].pc = "registered"
    /\ sock' = [sock EXCEPT !.wg = @ + 1]
    /\ conn' = [conn EXCEPT ![c].pc = "reading"]

\* the frame as it travels on connection c
OnWire(c, frame) == [type |-> frame.type, payload |-> frame.payload, from |-> c]

\* a client sends a frame once the handler waits for one
ClientSend(c, frame) ==
    /\ conn[c].pc = "reading" /\ conn[c].inbox = <<>>
    /\ ~conn[c].closed /\ ~conn[c].peerClosed
    /\ conn[c].nSent < MaxFrames
    /\ conn' = [conn EXCEPT ![c].inbox = Append(@, OnWire(c, frame)), ![c].nSent = @ + 1,
                             ![c].wire = Append(@, OnWire(c, frame))]
    /\ UNCHANGED sock

\* a client sends a frame without waiting for the answer to the one before
ClientSendAhead(c, frame) ==
    /\ conn[c].pc \in {"reading", "processing", "writing"}
    /\ ~conn[c].closed /\ ~conn[c].peerClosed
    /\ conn[c].nSent < MaxPipelined
    /\ conn' = [conn EXCEPT ![c].inbox = Append(@, OnWire(c, frame)), ![c].nSent = @ + 1,
                             ![c].wire = Append(@, OnWire(c, frame))]
    /\ UNCHANGED sock

ClientClose(c) ==
    /\ Established(c)
    /\ ~conn[c].peerClosed
    /\ conn' = [conn EXCEPT ![c].peerClosed = TRUE]
    /\ UNCHANGED sock

\* the loop had it taken the newest frame that waits, not the oldest
ReadMessageNewest(c) ==
    /\ conn[c].pc = "reading"
    /\ \/ /\ conn[c].closed \/ (conn[c].peerClosed /\ conn[c].inbox = <<>>)
          /\ conn' = [conn EXCEPT ![c].pc = "exiting"]
       \/ /\ ~conn[c].closed /\ conn[c].inbox # <<>>
          /\ LET frame == conn[c].inbox[Len(conn[c].inbox)] IN
             conn' = [conn EXCEPT
                 ![c].inbox = SubSeq(@, 1, Len(@) - 1),
                 ![c].cur = frame,
                 ![c].accepted = IF frame.payload = "garbage" THEN @ ELSE Append(@, frame),
                 ![c].pc = IF frame.payload = "garbage" THEN "exiting" ELSE "processing"]
    /\ UNCHANGED sock

\* conn.ReadMessage and json.Unmarshal: the message type is discarded; the
\* frames that pass json.Unmarshal are the requests received
ReadMessage(c) ==
    /\ conn[c].pc = "reading"
    /\ \/ /\ conn[c].closed \/ (conn[c].peerClosed /\ conn[c].inbox = <<>>)
          /\ conn' = [conn EXCEPT ![c].pc = "exiting"]
       \/ /\ ~conn[c].closed /\ conn[c].inbox # <<>>
          /\ LET frame == Head(conn[c].inbox) IN
             conn' = [conn EXCEPT
                 ![c].inbox = Tail(@),
                 ![c].cur = frame,
                 ![c].accepted = IF frame.payload = "garbage" THEN @ ELSE Append(@, frame),
                 ![c].pc = IF frame.payload = "garbage" THEN "exiting" ELSE "processing"]
    /\ UNCHANGED sock

processRequest(c) ==
    /\ conn[c].pc = "processing"
    /\ conn' = [conn EXCEPT
           ![c].executed = IF conn[c].cur.payload = "query" THEN @ + 1 ELSE @,
           ![c].pc = "writing"]
    /\ UNCHANGED sock

WriteMessage(c, ok) ==
    /\ conn[c].pc = "writing"
    /\ ok \in (IF conn[c].closed THEN {FALSE}
               ELSE IF conn[c].peerClosed THEN BOOLEAN ELSE {TRUE})
    /\ conn' = [conn EXCEPT
           ![c].responses = IF ok THEN @ + 1 ELSE @,
           ![c].answered = IF ok THEN Append(@, conn[c].cur) ELSE @,
           ![c].pc = IF ok THEN "reading" ELSE "exiting"]
    /\ UNCHANGED sock

\* the deferred calls of the handler: delete from the map, Close, wg.Done
HandlerExit(c) ==
    /\ conn[c].pc = "exiting"
    /\ sock' = [sock EXCEPT !.wsConnections = @ \ {c}, !.wg = @ - 1]
    /\ conn' = [conn EXCEPT ![c].closed = TRUE, ![c].pc = "exited"]

\* Stop, under the mutex: return if there is no server, else close every
\* connection of the map and empty it
StopLocked ==
    /\ sock.stop = "idle"
    /\ IF ~sock.httpServer
       THEN /\ sock' = [sock EXCEPT !.stop = "done"]
            /\ UNCHANGED conn
       ELSE /\ conn' = [c \in Conns |->
                           IF c \in sock.wsConnections
                           THEN [conn[c] EXCEPT !.closed = TRUE] ELSE conn[c]]
            /\ sock' = [sock EXCEPT !.wsConnections = {}, !.stop = "unlocked"]

\* server.Shutdown closes the listener first
ShutdownBegin ==
    /\ sock.stop = "unlocked"
    /\ sock' = [sock EXCEPT !.listening = FALSE, !.stop = "shutdown", !.elapsed = 0]
    /\ UNCHANGED conn

\* a second passes while Shutdown waits for the tracked connections
ShutdownTick ==
    /\ sock.stop = "shutdown"
    /\ \E c \in Conns : Tracked(c)
    /\ sock.elapsed < ShutdownTimeout
    /\ sock' = [sock EXCEPT !.elapsed = @ + 1]
    /\ UNCHANGED conn

\* Shutdown returns when no tracked connection is left or its context is done
ShutdownReturn ==
    /\ sock.stop = "shutdown"
    /\ (\A c \in Conns : ~Tracked(c)) \/ sock.elapsed = ShutdownTimeout
    /\ sock' = [sock EXCEPT !.stop = "waiting"]
    /\ UNCHANGED conn

\* s.wg.Wait() returns
StopWaitReturn ==
    /\ sock.stop = "waiting"
    /\ sock.wg = 0
    /\ sock' = [sock EXCEPT !.stop = "done"]
    /\ UNCHANGED conn

InitSocket ==
    /\ sock = NewServer
    /\ conn = [c \in Conns |-> NoConn]

(***************************************************************************)
(* The MCP server's memo: the insights slice, append_insight calls running *)
(* in the goroutines of their requests, and reads of memo://insights.  The *)
(* append statement reads the slice and then stores the extended slice;    *)
(* nothing orders the two against another call.  A memo is its sequence of *)
(* lines; an insight holds no newline.                                     *)
(***************************************************************************)
NumAppenders == 3
Appenders == 1..NumAppenders

\* "" stands for a missing or empty insight parameter
Insights == {"", "x", "y"}

IdleAppender == [pc |-> "idle", insight |-> "", seen |-> <<>>, result |-> ""]

ResultMissing == "Missing or invalid insight parameter"
ResultAdded == "Insight added to memo"

SynthesizeMemo(list) ==
    IF Len(list) = 0
    THEN << <<"No business insights have been discovered yet.">> >>
    ELSE << <<"Business Intelligence Memo">>, <<>>, <<"Key Insights Discovered:">>, <<>> >>
         \o [i \in 1..Len(list) |-> <<"- ", list[i]>>]
         \o (IF Len(list) > 1
             THEN << <<>>, <<"Summary:">>, <<"Analysis has revealed", Len(list)>> >>
             ELSE << >>)

\* RequireString, the test of the parameter, and the read of h.a10e.insights
AppendInsightHandler(a, insight) ==
    /\ appender[a].pc = "idle"
    /\ appender' = [appender EXCEPT ![a] =
           IF insight = ""
           THEN [pc |-> "done", insight |-> insight, seen |-> <<>>, result |-> ResultMissing]
           ELSE [pc |-> "appending", insight |-> insight, seen |-> insights, result |-> ""]]
    /\ UNCHANGED <<insights, memo>>

\* the store of append's result, the notification, the result of the tool
AppendInsightStore(a) ==
    /\ appender[a].pc = "appending"
    /\ insights' = Append(appender[a].seen, appender[a].insight)
    /\ appender' = [appender EXCEPT ![a].pc = "done", ![a].result = ResultAdded]
    /\ UNCHANGED memo

\* a client reads the resource memo://insights
ReadMemo ==
    /\ memo # SynthesizeMemo(insights)
    /\ memo' = SynthesizeMemo(insights)
    /\ UNCHANGED <<insights, appender>>

InitMemo ==
    /\ insights = <<>>
    /\ appender = [a \in Appenders |-> IdleAppender]
    /\ memo = SynthesizeMemo(<<>>)

(***************************************************************************)
(* cmd/app: Run creates the components one after another; Shutdown, called *)
(* on a signal, finds those that Run has created by then.  app.ran counts  *)
(* the components Run has created: the handle, the HTTP server, the MCP    *)
(* server, the HTTP goroutine, the socket server, the socket goroutine.    *)
(***************************************************************************)
RunSteps == 6
ShutdownGrace == 5

IdleApp ==
    [ran |-> RunSteps, pc |-> "idle", http |-> "up", mcp |-> "up", sock |-> "up",
     httpWorker |-> "serving", sockWorker |-> "serving", log |-> <<>>,
     clock |-> 0, httpWaited |-> 0, mcpWaited |-> 0, httpErr |-> FALSE, mcpErr |-> FALSE]

dbNotNil == app.ran >= 1
httpServerNotNil == app.ran >= 2
mcpServerNotNil == app.ran >= 3
httpWorkerStarted == app.ran >= 4
sockServerNotNil == app.ran >= 5
sockWorkerStarted == app.ran >= 6

\* a signal arrives while Run has created only its first n components
SignalDuringRun(n) ==
    /\ app.pc = "idle" /\ app.ran = RunSteps
    /\ n < RunSteps
    /\ app' = [app EXCEPT !.ran = n]

\* cancel()
ShutdownCancel ==
    /\ app.pc = "idle"
    /\ CancelRoot
    /\ app' = [app EXCEPT !.pc = "http", !.log = Append(@, "cancel")]

\* httpServer.Shutdown(shutdownCtx) is called
ShutdownHTTP ==
    /\ app.pc = "http"
    /\ app' = IF httpServerNotNil
              THEN [app EXCEPT !.pc = "httpWait", !.http = "called",
                               !.log = Append(@, "http.Shutdown")]
              ELSE [app EXCEPT !.pc = "mcp"]

\* a second of shutdownCtx passes while Shutdown waits for a listener
ShutdownSecond ==
    /\ app.pc \in {"httpWait", "mcpWait"}
    /\ app.clock < ShutdownGrace
    /\ app' = [app EXCEPT !.clock = @ + 1,
                          !.httpWaited = IF app.pc = "httpWait" THEN @ + 1 ELSE @,
                          !.mcpWaited = IF app.pc = "mcpWait" THEN @ + 1 ELSE @]

\* it returns: nil once its connections are idle, else the error of
\* shutdownCtx when that is done
HTTPReturn(drained) ==
    /\ app.http = "called"
    /\ ~drained => app.clock = ShutdownGrace
    /\ app' = [app EXCEPT !.http = "returned", !.log = Append(@, "http.returned"),
                          !.httpErr = ~drained,
                          !.pc = IF @ = "httpWait" THEN "mcp" ELSE @]

ShutdownMCP ==
    /\ app.pc = "mcp"
    /\ app' = IF mcpServerNotNil
              THEN [app EXCEPT !.pc = "mcpWait", !.mcp = "called",
                               !.log = Append(@, "mcp.Shutdown")]
              ELSE [app EXCEPT !.pc = "sock"]

MCPReturn(drained) ==
    /\ app.mcp = "called"
    /\ ~drained => app.clock = ShutdownGrace
    /\ app' = [app EXCEPT !.mcp = "returned", !.log = Append(@, "mcp.returned"),
                          !.mcpErr = ~drained,
                          !.pc = IF @ = "mcpWait" THEN "sock" ELSE @]

\* Shutdown had it not waited for Stop
ShutdownSockDetached ==
    /\ app.pc = "sock"
    /\ app' = IF sockServerNotNil
              THEN [app EXCEPT !.pc = "db", !.sock = "called",
                               !.log = Append(@, "sock.Stop")]
              ELSE [app EXCEPT !.pc = "db"]

\* sockServer.Stop(log) is called
ShutdownSock ==
    /\ app.pc = "sock"
    /\ app' = IF sockServerNotNil
              THEN [app EXCEPT !.pc = "sockWait", !.sock = "called",
                               !.log = Append(@, "sock.Stop")]
              ELSE [app EXCEPT !.pc = "db"]

SockReturn ==
    /\ app.sock = "called"
    /\ app' = [app EXCEPT !.sock = "returned", !.log = Append(@, "sock.returned"),
                          !.pc = IF @ = "sockWait" THEN "db" ELSE @]

\* helpers.CloseResources(db, ...): Close takes the lock of the handle
ShutdownCloseDB ==
    /\ app.pc = "db"
    /\ IF dbNotNil
       THEN /\ CloseLock(1)
            /\ app' = [app EXCEPT !.pc = "dbWait", !.log = Append(@, "db.Close")]
       ELSE /\ app' = [app EXCEPT !.pc = "join"]
            /\ UNCHANGED dbVars

\* Close returns
ShutdownDBClosed ==
    /\ app.pc = "dbWait"
    /\ CloseFinish(1)
    /\ app' = [app EXCEPT !.pc = "join", !.log = Append(@, "db.closed")]

\* the goroutine of the HTTP server: ListenAndServe returns once Shutdown is called
HTTPWorkerDone ==
    /\ httpWorkerStarted
    /\ app.httpWorker = "serving"
    /\ app.http # "up"
    /\ app' = [app EXCEPT !.httpWorker = "done"]

\* the goroutine of the socket server: Start returns once its server is shut
\* down, by this Stop or by the Stop its context goroutine calls
SockWorkerDone ==
    /\ sockWorkerStarted
    /\ app.sockWorker = "serving"
    /\ ctxCancelled
    /\ app' = [app EXCEPT !.sockWorker = "done"]

\* wg.Wait() returns
ShutdownJoin ==
    /\ app.pc = "join"
    /\ httpWorkerStarted => app.httpWorker = "done"
    /\ sockWorkerStarted => app.sockWorker = "done"
    /\ app' = [app EXCEPT !.pc = "done", !.log = Append(@, "joined")]

InitApp == app = IdleApp

(***************************************************************************)
(* The process: main starts Run in a goroutine and waits for its error or  *)
(* for a signal.  A Go program whose main returns exits with code 0.       *)
(***************************************************************************)
ExitAfterMain == 0
NotExited == -1

StartupFailures == {"snapshot", "open", "socket"}

NewProcess == [pc |-> "start", code |-> NotExited, cause |-> "none"]

\* -version: the version is printed and os.Exit(0) is called
MainVersion ==
    /\ proc.pc = "start"
    /\ proc' = [pc |-> "exited", code |-> 0, cause |-> "version"]
    /\ UNCHANGED app

\* Run returns an error: NewDuckDB has failed, to load the snapshot or to
\* open the database, or socket.NewServer has; main's goroutine sends the
\* error on errCh
RunFails(failure) ==
    /\ proc.pc = "start"
    /\ app.pc = "idle" /\ app.ran = RunSteps
    /\ proc' = [proc EXCEPT !.pc = "failed", !.cause = failure]
    /\ app' = [app EXCEPT !.ran = IF failure = "socket" THEN 4 ELSE 0]

\* main receives from errCh, logs "Application failed" and returns
MainApplicationFailed ==
    /\ proc.pc = "failed"
    /\ proc' = [proc EXCEPT !.pc = "exited", !.code = ExitAfterMain]
    /\ UNCHANGED app

\* Run has started every component and waits for its context
RunStarted ==
    /\ proc.pc = "start"
    /\ app.pc = "idle" /\ app.ran = RunSteps
    /\ proc' = [proc EXCEPT !.pc = "running"]
    /\ UNCHANGED app

\* main receives a signal and calls Shutdown, whose first step is cancel()
MainSignal ==
    /\ proc.pc \in {"start", "running"}
    /\ ShutdownCancel
    /\ proc' = [proc EXCEPT !.pc = "stopping", !.cause = "signal"]

\* Shutdown has returned; main logs "Shutdown complete" and returns
MainShutdownComplete ==
    /\ proc.pc = "stopping"
    /\ app.pc = "done"
    /\ proc' = [proc EXCEPT !.pc = "exited", !.code = ExitAfterMain]
    /\ UNCHANGED app

(***************************************************************************)
(* The rate limiter of the API: rateLimitMiddleware reads its environment  *)
(* once, in setupMiddlewares, and answers with the pass-through handler or *)
(* with the limiter of an in-memory store whose window is one second and   *)
(* whose key is the client's IP.                                           *)
(***************************************************************************)
DefaultRateLimit == 5
MaxRpsLen == 2
MaxBurst == 7

ReleaseMode == "release"
ServerModes == {"debug", ReleaseMode, "test"}
ServerModeEnvs == ServerModes \cup {""}

RpsChars == {"0", "2", "x"}
RpsEnvs == UNION {[1..n -> RpsChars] : n \in 0..MaxRpsLen}
ClientIPs == {"a", "b"}

DigitOf(c) == IF c = "0" THEN 0 ELSE IF c = "2" THEN 2 ELSE -1

RECURSIVE ParseUintFrom(_, _, _)
ParseUintFrom(s, i, acc) ==
    IF i > Len(s) THEN [err |-> FALSE, value |-> acc]
    ELSE IF DigitOf(s[i]) < 0 THEN [err |-> TRUE, value |-> 0]
    ELSE ParseUintFrom(s, i + 1, acc * 10 + DigitOf(s[i]))

\* strconv.ParseUint(s, 10, 32): the empty string and a string with any
\* other character than a digit are errors
ParseUint(s) == IF s = <<>> THEN [err |-> TRUE, value |-> 0] ELSE ParseUintFrom(s, 1, 0)

\* setupRouter: ENV_SERVER_MODE, or release mode when it is empty
GinMode(serverModeEnv) == IF serverModeEnv = "" THEN ReleaseMode ELSE serverModeEnv

\* rateLimitMiddleware: the pass-through handler is returned
RateLimitDisabled(rpsEnv, mode) == rpsEnv = <<"0">> \/ mode # ReleaseMode

\* rateLimitMiddleware: the Limit of the store
RateLimitOf(rpsEnv) ==
    IF rpsEnv # <<>> /\ ~ParseUint(rpsEnv).err /\ ParseUint(rpsEnv).value > 0
    THEN ParseUint(rpsEnv).value
    ELSE DefaultRateLimit

NoRouter ==
    [pc |-> "unset", mode |-> "", rpsEnv |-> <<>>, enabled |-> FALSE, rateLimit |-> 0,
     hits |-> [ip \in ClientIPs |-> 0], sent |-> [ip \in ClientIPs |-> 0],
     ip |-> "", prior |-> 0, status |-> 0]

\* setupRouter and, in it, rateLimitMiddleware
setupRouter(serverModeEnv, rpsEnv) ==
    /\ limiter.pc = "unset"
    /\ limiter' = [limiter EXCEPT !.pc = "serving", !.mode = GinMode(serverModeEnv),
                                  !.rpsEnv = rpsEnv,
                                  !.enabled = ~RateLimitDisabled(rpsEnv, GinMode(serverModeEnv)),
                                  !.rateLimit = RateLimitOf(rpsEnv)]

\* a request of the client ip that has passed apiKeyAuthMiddleware reaches
\* the handler rateLimitMiddleware has returned: the pass-through handler
\* calls c.Next(); the limiter counts the request against the client's
\* window and calls errorHandler once the window holds Limit requests
RateLimited(ip) ==
    /\ limiter.pc = "serving"
    /\ limiter.sent[ip] < MaxBurst
    /\ limiter' = [limiter EXCEPT
          !.sent[ip] = @ + 1,
          !.hits[ip] = IF limiter.enabled /\ @ < limiter.rateLimit THEN @ + 1 ELSE @,
          !.ip = ip,
          !.prior = limiter.sent[ip],
          !.status = IF limiter.enabled /\ limiter.hits[ip] >= limiter.rateLimit
                     THEN StatusTooManyRequests ELSE StatusOK]

\* the second of the client ip ends: its window starts anew
WindowEnds(ip) ==
    /\ limiter.pc = "serving"
    /\ limiter.sent[ip] > 0
    /\ limiter' = [limiter EXCEPT !.sent[ip] = 0, !.hits[ip] = 0]

InitLimiter == limiter = NoRouter

(***************************************************************************)
(* Concurrent uploads: every POST /upload runs handleCSVUpload in its own  *)
(* goroutine.  The requests share os.TempDir(), where the path of a        *)
(* temporary file is made of the table name alone, and the catalog of the  *)
(* engine.  The files are valid CSV files, so that no copy fails.          *)
(***************************************************************************)
NumUploads == 2
NumChunks == 2

Uploaders == 1..NumUploads
ConcurrentTables == {<<"t", "_">>, <<"t", "-">>}
TempPaths == {createTempFileForUpload(t) : t \in ConcurrentTables}

NoInode == 0
Hole == <<0, 0>>

\* the bytes of the file of request u, one chunk per Write of the copy
ContentOf(u) == [i \in 1..NumChunks |-> <<u, i>>]

\* write(2) of one chunk at the offset of the descriptor: the file grows,
\* with a hole when the offset is past its end
WriteAt(data, off, chunk) ==
    [i \in 1..(IF off + 1 > Len(data) THEN off + 1 ELSE Len(data)) |->
        IF i = off + 1 THEN chunk ELSE IF i <= Len(data) THEN data[i] ELSE Hole]

IdleUploader ==
    [pc |-> "idle", tableName |-> <<>>, override |-> FALSE, path |-> <<>>, fd |-> NoInode,
     off |-> 0, status |-> 0, code |-> "", created |-> FALSE, read |-> <<>>,
     replaced |-> FALSE, truncated |-> FALSE, removed |-> FALSE]

EmptyTempDir ==
    [dir |-> [p \in TempPaths |-> NoInode], data |-> [i \in Uploaders |-> <<>>]]

\* request v is between the os.Create of its temporary file and the return
\* of its CREATE TABLE, and its file is the one at path
StillUsing(v, path) ==
    ups[v].pc \in {"copying", "check", "import"} /\ ups[v].path = path

\* createTempFileForUpload: os.Create opens the file at the path, truncated
\* when it exists and new when it does not
UploaderCreate(u, tableName, override) ==
    /\ ups[u].pc = "idle"
    /\ LET path == createTempFileForUpload(tableName)
           inode == IF tmpfs.dir[path] # NoInode THEN tmpfs.dir[path] ELSE u
       IN  /\ tmpfs' = [tmpfs EXCEPT !.dir[path] = inode, !.data[inode] = <<>>]
           /\ ups' = [ups EXCEPT ![u] =
                  [@ EXCEPT !.pc = "copying", !.tableName = tableName,
                            !.override = override, !.path = path, !.fd = inode,
                            !.truncated = \E v \in Uploaders \ {u} : StillUsing(v, path)]]
    /\ UNCHANGED tables

\* copyFileData: one Write of the copy; after the last one the file is closed
UploaderWrite(u) ==
    /\ ups[u].pc = "copying"
    /\ tmpfs' = [tmpfs EXCEPT !.data[ups[u].fd] =
                    WriteAt(@, ups[u].off, ContentOf(u)[ups[u].off + 1])]
    /\ ups' = [ups EXCEPT ![u].off = @ + 1,
                          ![u].pc = IF ups[u].off + 1 = NumChunks THEN "check" ELSE "copying"]
    /\ UNCHANGED tables

\* importCsvData up to directImport
UploaderCheck(u) ==
    /\ ups[u].pc = "check"
    /\ ups' = [ups EXCEPT ![u] =
          IF ~ups[u].override /\ checkTableExists(ups[u].tableName, tables)
          THEN [@ EXCEPT !.pc = "cleanup", !.status = StatusUnprocessableEntity,
                         !.code = "DUPLICATE_TABLE_NAME"]
          ELSE [@ EXCEPT !.pc = "import"]]
    /\ UNCHANGED <<tables, tmpfs>>

\* directImport: CreateTableFromCSV under the mutex of the handle, and the
\* answer of importCsvData to its error.  read_csv fails when no file is at
\* the path; when the table exists as well, the engine reports the one of
\* the two errors that it finds first
UploaderImport(u, first) ==
    /\ ups[u].pc = "import"
    /\ MutexFree
    /\ LET up == ups[u]
           present == tmpfs.dir[up.path] # NoInode
           c == CreateTableFromCSV(up.tableName, up.override, tables, present)
           err == IF c.err = ErrAlreadyExists /\ ~present /\ first = "file"
                  THEN ErrEngine ELSE c.err
       IN  /\ tables' = c.tables
           /\ ups' = [ups EXCEPT ![u] =
                  IF err = NoErr
                  THEN [@ EXCEPT !.pc = "info", !.created = TRUE,
                                 !.read = tmpfs.data[tmpfs.dir[up.path]],
                                 !.replaced = sanitizeTableName(up.tableName) \in tables]
                  ELSE [@ EXCEPT !.pc = "cleanup", !.status = StatusUnprocessableEntity,
                                 !.replaced = FALSE,
                                 !.code = IF ~up.override /\ err = ErrAlreadyExists
                                          THEN "DUPLICATE_TABLE_NAME"
                                          ELSE "DIRECT_IMPORT_FAILED"]]
    /\ UNCHANGED tmpfs

\* directImport: getColumnInfo
UploaderInfo(u) ==
    /\ ups[u].pc = "info"
    /\ ups' = [ups EXCEPT ![u] =
          IF getColumnInfo(ups[u].tableName, tables)
          THEN [@ EXCEPT !.pc = "count"]
          ELSE [@ EXCEPT !.pc = "cleanup", !.status = StatusUnprocessableEntity,
                         !.code = "TABLE_INFO_ERROR"]]
    /\ UNCHANGED <<tables, tmpfs>>

\* directImport: countRows, and the answer of handleCSVUpload
UploaderCount(u) ==
    /\ ups[u].pc = "count"
    /\ ups' = [ups EXCEPT ![u] =
          IF countRows(ups[u].tableName, tables)
          THEN [@ EXCEPT !.pc = "cleanup", !.status = StatusOK]
          ELSE [@ EXCEPT !.pc = "cleanup", !.status = StatusUnprocessableEntity,
                         !.code = "ROW_COUNT_ERROR"]]
    /\ UNCHANGED <<tables, tmpfs>>

\* the deferred cleanupTempFile: os.Remove of the path, whose error is logged
UploaderCleanup(u) ==
    /\ ups[u].pc = "cleanup"
    /\ tmpfs' = [tmpfs EXCEPT !.dir[ups[u].path] = NoInode]
    /\ ups' = [ups EXCEPT ![u].pc = "done",
                          ![u].removed = /\ tmpfs.dir[ups[u].path] # NoInode
                                         /\ \E v \in Uploaders \ {u} : StillUsing(v, ups[u].path)]
    /\ UNCHANGED tables

InitUploaders ==
    /\ ups = [u \in Uploaders |-> IdleUploader]
    /\ tmpfs = EmptyTempDir

(***************************************************************************)
(* The read_query tool of the MCP server: ReadQueryHandler admits the text *)
(* by its prefix and hands it to A10eServer.ExecuteQuery, which hands a    *)
(* text that starts with SELECT to the ExecuteQuery of the handle.         *)
(***************************************************************************)
MaxToolLen == 3
ToolLexemes == {"SELECT", "select", "CREATE", ";", " "}
ToolInputs == SeqsUpTo(ToolLexemes, MaxToolLen)

IdleTool == [pc |-> "idle", name |-> "", text |-> <<>>, isError |-> FALSE, message |-> ""]

\* strings.HasPrefix(strings.ToUpper(strings.TrimSpace(query)), "SELECT")
HasPrefixSelect(text) ==
    LET s == ToUpper(TrimSpace(text)) IN Len(s) >= 1 /\ s[1] = "SELECT"

\* ReadQueryHandler up to the call of the handle: the two refusals, or
\* A10eServer.ExecuteQuery and executeSelectQuery with the trimmed text
ReadQueryHandler(text) ==
    /\ tool.pc = "idle"
    /\ query[1].pc = "idle"
    /\ IF text = <<>>
       THEN /\ tool' = [pc |-> "done", name |-> "read_query", text |-> text, isError |-> TRUE,
                        message |-> "Missing or invalid query parameter"]
            /\ UNCHANGED dbVars
       ELSE IF ~HasPrefixSelect(text)
       THEN /\ tool' = [pc |-> "done", name |-> "read_query", text |-> text, isError |-> TRUE,
                        message |-> "Only SELECT queries are allowed for read_query"]
            /\ UNCHANGED dbVars
       ELSE /\ tool' = [tool EXCEPT !.pc = "called", !.name = "read_query", !.text = text]
            /\ ExecuteQuery(1, {TrimSpace(text)})

\* ReadQueryHandler from the return of the handle
ReadQueryReturn ==
    /\ tool.pc = "called"
    /\ query[1].pc = "done"
    /\ tool' = [tool EXCEPT !.pc = "done", !.isError = query[1].err # NoErr,
                            !.message = IF query[1].err # NoErr THEN "Query error" ELSE ""]
    /\ UNCHANGED dbVars

InitTool == tool = IdleTool

(***************************************************************************)
(* POST /query with a limit: handleQuery appends the limit to the text     *)
(* with applyQueryLimit and runs the text on the handle.  The lexemes:     *)
(*   SELECT          SELECT * FROM users                                   *)
(*   SELECT_limits   SELECT * FROM limits                                  *)
(*   LIMIT1, LIMIT2  LIMIT 1, LIMIT 2                                      *)
(* Both tables hold NumRows rows.                                          *)
(***************************************************************************)
NumRows == 3
MaxLimitLen == 3

Limits == {0, 1, 2}
LimitClauses == {"LIMIT1", "LIMIT2"}
LimitLexemes == {"SELECT", "SELECT_limits", ";", " "}
LimitInputs == SeqsUpTo(LimitLexemes, MaxLimitLen)

\* fmt.Sprintf("LIMIT %d", limit), and the number a clause holds
LimitClause(limit) == IF limit = 1 THEN "LIMIT1" ELSE "LIMIT2"
LimitOf(clause) == IF clause = "LIMIT1" THEN 1 ELSE 2

\* strings.Contains(upper, "LIMIT"), on a text in upper case
ContainsLIMIT(upper) ==
    \E i \in 1..Len(upper) : upper[i] \in LimitClauses \cup {"SELECT_LIMITS"}

applyQueryLimit(queryText, limit) ==
    IF limit > 0 /\ ~ContainsLIMIT(ToUpper(queryText))
    THEN queryText \o <<" ", LimitClause(limit)>>
    ELSE queryText

\* the lexemes of a segment that are not white space
Words(segment) == SelectSeq(segment, LAMBDA l : l # " ")

\* the rows the engine returns for one trimmed segment, -1 when it fails the
\* segment: a SELECT, or a SELECT and after white space a LIMIT clause
RowsOf(segment) ==
    LET w == Words(segment)
    IN  IF Len(w) = 1 /\ Len(segment) = 1 /\ ToUpperLexeme(w[1]) \in {"SELECT", "SELECT_LIMITS"}
        THEN NumRows
        ELSE IF /\ Len(w) = 2 /\ Len(segment) > 2
                /\ ToUpperLexeme(segment[1]) \in {"SELECT", "SELECT_LIMITS"}
                /\ w[2] \in LimitClauses
        THEN (IF LimitOf(w[2]) < NumRows THEN LimitOf(w[2]) ELSE NumRows)
        ELSE -1

\* the loop of ExecuteQuery over the segments from i on: the error of the
\* first segment that fails, or the rows of the last one that ran
RECURSIVE RunSegments(_, _, _)
RunSegments(queries, i, last) ==
    LET n == NextSegment(queries, i)
    IN  IF n > Len(queries) THEN last
        ELSE IF RowsOf(TrimSpace(queries[n])) < 0 THEN [err |-> ErrEngine, rows |-> 0]
        ELSE RunSegments(queries, n + 1, [err |-> NoErr, rows |-> RowsOf(TrimSpace(queries[n]))])

\* ExecuteQuery of the handle, run to its end on an open handle whose two
\* tables exist
RunQuery(queryText) ==
    IF Admission(queryText) # NoErr THEN [err |-> Admission(queryText), rows |-> 0]
    ELSE RunSegments(splitQueryBySemicolon(queryText), 1, [err |-> ErrNoValid, rows |-> 0])

NoQueryRequest ==
    [pc |-> "idle", queryText |-> <<>>, limit |-> 0, sent |-> <<>>,
     out |-> [err |-> NoErr, rows |-> 0], plain |-> [err |-> NoErr, rows |-> 0]]

\* handleQuery: the text is bound, the limit applied and the text executed;
\* plain is what the same text gives in a request without a limit
handleQuery(queryText, limit) ==
    /\ lq.pc = "idle"
    /\ lq' = [pc |-> "done", queryText |-> queryText, limit |-> limit,
              sent |-> applyQueryLimit(queryText, limit),
              out |-> RunQuery(applyQueryLimit(queryText, limit)),
              plain |-> RunQuery(applyQueryLimit(queryText, 0))]

InitQueryRequest == lq = NoQueryRequest

(***************************************************************************)
(* The second call of Stop: the goroutine Start leaves behind calls Stop   *)
(* when the context is cancelled, while Shutdown calls Stop itself.  The   *)
(* field httpServer is never set back to nil, so both calls run every step *)
(* of Stop, each with its own shutdown context.                            *)
(***************************************************************************)
IdleWatcher == [pc |-> "idle", elapsed |-> 0]

\* <-ctx.Done() and Stop under the mutex
WatcherStopLocked ==
    /\ watcher.pc = "idle"
    /\ sock.httpServer
    /\ conn' = [c \in Conns |->
                   IF c \in sock.wsConnections
                   THEN [conn[c] EXCEPT !.closed = TRUE] ELSE conn[c]]
    /\ sock' = [sock EXCEPT !.wsConnections = {}]
    /\ watcher' = [watcher EXCEPT !.pc = "unlocked"]

WatcherShutdownBegin ==
    /\ watcher.pc = "unlocked"
    /\ sock' = [sock EXCEPT !.listening = FALSE]
    /\ watcher' = [pc |-> "shutdown", elapsed |-> 0]
    /\ UNCHANGED conn

WatcherShutdownTick ==
    /\ watcher.pc = "shutdown"
    /\ \E c \in Conns : Tracked(c)
    /\ watcher.elapsed < ShutdownTimeout
    /\ watcher' = [watcher EXCEPT !.elapsed = @ + 1]
    /\ UNCHANGED <<sock, conn>>

WatcherShutdownReturn ==
    /\ watcher.pc = "shutdown"
    /\ (\A c \in Conns : ~Tracked(c)) \/ watcher.elapsed = ShutdownTimeout
    /\ watcher' = [watcher EXCEPT !.pc = "waiting"]
    /\ UNCHANGED <<sock, conn>>

\* s.wg.Wait() returns, then close(stopped)
WatcherWaitReturn ==
    /\ watcher.pc = "waiting"
    /\ sock.wg = 0
    /\ watcher' = [watcher EXCEPT !.pc = "done"]
    /\ UNCHANGED <<sock, conn>>

InitWatcher == watcher = IdleWatcher

InitMore ==
    /\ proc = NewProcess
    /\ InitLimiter
    /\ InitUploaders
    /\ InitTool
    /\ InitQueryRequest
    /\ InitWatcher

\* no socket server, no MCP call and no Shutdown is running
NoApp == InitSocket /\ InitMemo /\ InitApp /\ InitMore

(***************************************************************************)
(* The handle right after NewDuckDBConfig has returned it.                 *)
(***************************************************************************)
InitDB ==
    /\ sqlClosed = FALSE
    /\ tables = {}
    /\ walDirty = FALSE
    /\ fileVer = 0
    /\ fileExists = TRUE
    /\ muWriter = NoOne
    /\ muReaders = {}
    /\ ctxCancelled = FALSE
    /\ dbCtxCancelled = FALSE
    /\ query = [q \in Queries |-> IdleQuery]
    /\ closer = [c \in Closers |-> IdleClose]
    /\ snap = [s \in Snapshots |-> IdleSnap]
    /\ csv = IdleCsv
    /\ worker = IdleWorker
    /\ trail = <<"Open">>

(***************************************************************************)
(* Spec: the handle under concurrent callers: queries, snapshots, a CSV   *)
(* table create, Close and the cancellation of the root context.           *)
(***************************************************************************)
ConcurrentInputs ==
    {<<"SELECT">>, <<"CREATE", ";", "CHECKPOINT">>, <<"SELECT", " ", "--">>, <<";">>}

\* the handle alone: no copy is running and no listener is serving
Init == InitDB /\ NoCopyRunning /\ NoServer /\ NoUpload /\ InitCleanup /\ NoApp

Next ==
    \/ \E q \in Queries : ExecuteQuery(q, ConcurrentInputs) /\ UNCHANGED <<copyVars, authVars, uploadVars, cleanVars, appVars>>
    \/ \E q \in Queries : Prepare(q) /\ UNCHANGED <<copyVars, authVars, uploadVars, cleanVars, appVars>>
    \/ \E q \in Queries : StmtQuery(q) /\ UNCHANGED <<copyVars, authVars, uploadVars, cleanVars, appVars>>
    \/ \E c \in Closers : CloseLock(c) /\ UNCHANGED <<copyVars, authVars, uploadVars, cleanVars, appVars>>
    \/ \E c \in Closers : CloseFinish(c) /\ UNCHANGED <<copyVars, authVars, uploadVars, cleanVars, appVars>>
    \/ \E s \in Snapshots : SnapRLock(s) /\ UNCHANGED <<copyVars, authVars, uploadVars, cleanVars, appVars>>
    \/ \E s \in Snapshots : SnapCheckpoint(s) /\ UNCHANGED <<copyVars, authVars, uploadVars, cleanVars, appVars>>
    \/ \E s \in Snapshots : SnapCopyFirst(s) /\ UNCHANGED <<copyVars, authVars, uploadVars, cleanVars, appVars>>
    \/ \E s \in Snapshots : SnapCopyRest(s) /\ UNCHANGED <<copyVars, authVars, uploadVars, cleanVars, appVars>>
    \/ CsvLock /\ UNCHANGED <<copyVars, authVars, uploadVars, cleanVars, appVars>>
    \/ CsvCreate /\ UNCHANGED <<copyVars, authVars, uploadVars, cleanVars, appVars>>
    \/ CancelRoot /\ UNCHANGED <<copyVars, authVars, uploadVars, cleanVars, appVars>>

Spec == Init /\ [][Next]_vars

(***************************************************************************)
(* SpecLock: the operations that take the write lock (the Close of the     *)
(* shutdown, the CSV table create, the cleanup worker's drops) beside      *)
(* ExecuteQuery.                                                           *)
(***************************************************************************)
LockInputs == {<<"SELECT">>, <<"CREATE">>}

NextLock ==
    \/ \E q \in Queries : ExecuteQuery(q, LockInputs) /\ UNCHANGED <<copyVars, authVars, uploadVars, cleanVars, appVars>>
    \/ \E q \in Queries : Prepare(q) /\ UNCHANGED <<copyVars, authVars, uploadVars, cleanVars, appVars>>
    \/ \E q \in Queries : StmtQuery(q) /\ UNCHANGED <<copyVars, authVars, uploadVars, cleanVars, appVars>>
    \/ CloseLock(1) /\ UNCHANGED <<copyVars, authVars, uploadVars, cleanVars, appVars>>
    \/ CloseFinish(1) /\ UNCHANGED <<copyVars, authVars, uploadVars, cleanVars, appVars>>
    \/ CsvLock /\ UNCHANGED <<copyVars, authVars, uploadVars, cleanVars, appVars>>
    \/ CsvCreate /\ UNCHANGED <<copyVars, authVars, uploadVars, cleanVars, appVars>>
    \/ \E resource \in PlainNames :
          WorkerEnqueue(resource) /\ UNCHANGED <<copyVars, authVars, uploadVars, cleanVars, appVars>>
    \/ TimePasses /\ UNCHANGED <<copyVars, authVars, uploadVars, cleanVars, appVars>>
    \/ WorkerTick /\ UNCHANGED <<copyVars, authVars, uploadVars, cleanVars, appVars>>
    \/ WorkerForget /\ UNCHANGED <<copyVars, authVars, uploadVars, cleanVars, appVars>>
    \/ WorkerLock /\ UNCHANGED <<copyVars, authVars, uploadVars, cleanVars, appVars>>
    \/ WorkerDrop /\ UNCHANGED <<copyVars, authVars, uploadVars, cleanVars, appVars>>
    \/ WorkerExit /\ UNCHANGED <<copyVars, authVars, uploadVars, cleanVars, appVars>>
    \/ CancelRoot /\ UNCHANGED <<copyVars, authVars, uploadVars, cleanVars, appVars>>

SpecLock == Init /\ [][NextLock]_vars

(***************************************************************************)
(* SpecDrop: the cleanup worker over every name of CleanupNames, and       *)
(* Close.                                                                  *)
(***************************************************************************)
NextDrop ==
    \/ \E resource \in CleanupNames :
          WorkerEnqueue(resource) /\ UNCHANGED <<copyVars, authVars, uploadVars, cleanVars, appVars>>
    \/ TimePasses /\ UNCHANGED <<copyVars, authVars, uploadVars, cleanVars, appVars>>
    \/ WorkerTick /\ UNCHANGED <<copyVars, authVars, uploadVars, cleanVars, appVars>>
    \/ WorkerForget /\ UNCHANGED <<copyVars, authVars, uploadVars, cleanVars, appVars>>
    \/ WorkerLock /\ UNCHANGED <<copyVars, authVars, uploadVars, cleanVars, appVars>>
    \/ WorkerDrop /\ UNCHANGED <<copyVars, authVars, uploadVars, cleanVars, appVars>>
    \/ WorkerExit /\ UNCHANGED <<copyVars, authVars, uploadVars, cleanVars, appVars>>
    \/ CancelRoot /\ UNCHANGED <<copyVars, authVars, uploadVars, cleanVars, appVars>>
    \/ CloseLock(1) /\ UNCHANGED <<copyVars, authVars, uploadVars, cleanVars, appVars>>
    \/ CloseFinish(1) /\ UNCHANGED <<copyVars, authVars, uploadVars, cleanVars, appVars>>

SpecDrop == Init /\ [][NextDrop]_vars


(***************************************************************************)
(* SpecClose: Close called NumCloses times while queries run.              *)
(***************************************************************************)
NextClose ==
    \/ \E q \in Queries : ExecuteQuery(q, ConcurrentInputs) /\ UNCHANGED <<copyVars, authVars, uploadVars, cleanVars, appVars>>
    \/ \E q \in Queries : Prepare(q) /\ UNCHANGED <<copyVars, authVars, uploadVars, cleanVars, appVars>>
    \/ \E q \in Queries : StmtQuery(q) /\ UNCHANGED <<copyVars, authVars, uploadVars, cleanVars, appVars>>
    \/ \E c \in Closers : CloseLock(c) /\ UNCHANGED <<copyVars, authVars, uploadVars, cleanVars, appVars>>
    \/ \E c \in Closers : CloseFinish(c) /\ UNCHANGED <<copyVars, authVars, uploadVars, cleanVars, appVars>>
    \/ CancelRoot /\ UNCHANGED <<copyVars, authVars, uploadVars, cleanVars, appVars>>

SpecClose == Init /\ [][NextClose]_vars


(***************************************************************************)
(* SpecQuery: one ExecuteQuery call on an open handle, over every          *)
(* submission of at most MaxQueryLen lexemes.                              *)
(***************************************************************************)
QueryLexemes == StmtLexemes \cup DenyLexemes \cup CharLexemes
AllInputs == SeqsUpTo(QueryLexemes, MaxQueryLen)

NextQuery ==
    \/ ExecuteQuery(1, AllInputs) /\ UNCHANGED <<copyVars, authVars, uploadVars, cleanVars, appVars>>
    \/ Prepare(1) /\ UNCHANGED <<copyVars, authVars, uploadVars, cleanVars, appVars>>
    \/ StmtQuery(1) /\ UNCHANGED <<copyVars, authVars, uploadVars, cleanVars, appVars>>

SpecQuery == Init /\ [][NextQuery]_vars


(***************************************************************************)
(* SpecSplit: one ExecuteQuery call over every submission of at most       *)
(* MaxSplitLen lexemes out of the ones the splitter tells apart and one    *)
(* statement.                                                              *)
(***************************************************************************)
MaxSplitLen == 4
SplitLexemes == CharLexemes \cup {"SELECT"}
SplitInputs == SeqsUpTo(SplitLexemes, MaxSplitLen)

NextSplit ==
    \/ ExecuteQuery(1, SplitInputs) /\ UNCHANGED <<copyVars, authVars, uploadVars, cleanVars, appVars>>
    \/ Prepare(1) /\ UNCHANGED <<copyVars, authVars, uploadVars, cleanVars, appVars>>
    \/ StmtQuery(1) /\ UNCHANGED <<copyVars, authVars, uploadVars, cleanVars, appVars>>

SpecSplit == Init /\ [][NextSplit]_vars

(***************************************************************************)
(* SpecCopy: one bounded copy, over every input of at most MaxInputLen     *)
(* bytes and every way Read can cut it into pieces of at most BufferSize.  *)
(***************************************************************************)
InitCopyOnly == InitDB /\ InitCopy /\ NoServer /\ NoUpload /\ InitCleanup /\ NoApp

NextCopy ==
    \/ \E bytesRead \in 0..BufferSize : \E readErr \in {NoErr, EOF, ErrSourceRead} :
          processSourceData(bytesRead, readErr) /\ UNCHANGED <<dbVars, authVars, uploadVars, cleanVars, appVars>>

SpecCopy == InitCopyOnly /\ [][NextCopy]_vars

(***************************************************************************)
(* SpecAuth: requests with and without the key on the three listeners.     *)
(***************************************************************************)
InitAuthOnly == InitDB /\ NoCopyRunning /\ InitAuth /\ NoUpload /\ InitCleanup /\ NoApp

NextAuth ==
    \/ \E req \in APIRequests : \E limited \in BOOLEAN :
          ServeAPI(req, limited) /\ UNCHANGED <<dbVars, copyVars, uploadVars, cleanVars, appVars>>
    \/ \E req \in SocketRequests : ServeSocket(req) /\ UNCHANGED <<dbVars, copyVars, uploadVars, cleanVars, appVars>>
    \/ \E req \in MCPRequests : ServeMCP(req) /\ UNCHANGED <<dbVars, copyVars, uploadVars, cleanVars, appVars>>

SpecAuth == InitAuthOnly /\ [][NextAuth]_vars

(***************************************************************************)
(* SpecUpload: one request to POST /upload or to POST /snapshot on an open *)
(* handle, after an earlier CreateTableFromCSV may have made the table.    *)
(***************************************************************************)
NextUpload ==
    \/ upload.pc = "idle" /\ snapshotReq.pc = "idle" /\ CsvLock
          /\ UNCHANGED <<copyVars, authVars, uploadVars, cleanVars, appVars>>
    \/ CsvCreate /\ UNCHANGED <<copyVars, authVars, uploadVars, cleanVars, appVars>>
    \/ \E req \in UploadRequests : \E mode \in ValidationModes :
          csv.pc # "locked" /\ handleCSVUpload(req, mode) /\ UNCHANGED <<authVars, cleanVars, appVars>>
    \/ \E bytesRead \in 0..BufferSize : \E readErr \in {NoErr, EOF, ErrSourceRead} :
          upload.pc = "copying" /\ processSourceData(bytesRead, readErr)
              /\ UNCHANGED <<dbVars, authVars, uploadVars, cleanVars, appVars>>
    \/ \E readOk \in BOOLEAN : handleCSVUploadAfterCopy(readOk) /\ UNCHANGED <<authVars, cleanVars, appVars>>
    \/ \E outcome \in SnapshotOutcomes : handleCreateSnapshot(outcome) /\ UNCHANGED <<cleanVars, appVars>>

SpecUpload == Init /\ [][NextUpload]_vars


(***************************************************************************)
(* SpecCleanup: the cleanup worker, its channel and its ticker over        *)
(* MaxClock minutes, until the root context is cancelled.                  *)
(***************************************************************************)
NextCleanup ==
    \/ TimeAdvances /\ UNCHANGED <<copyVars, authVars, uploadVars, appVars>>
    \/ \E resource \in PlainNames :
          CleanupEnqueue(resource) /\ UNCHANGED <<copyVars, authVars, uploadVars, appVars>>
    \/ CleanupReceive /\ UNCHANGED <<copyVars, authVars, uploadVars, appVars>>
    \/ CleanupTick /\ UNCHANGED <<copyVars, authVars, uploadVars, appVars>>
    \/ WorkerExit /\ UNCHANGED <<copyVars, authVars, uploadVars, cleanVars, appVars>>
    \/ CancelRoot /\ UNCHANGED <<copyVars, authVars, uploadVars, cleanVars, appVars>>

SpecCleanup == Init /\ [][NextCleanup]_vars


(***************************************************************************)
(* SpecSocket: the socket server with NumConns clients and one Stop.       *)
(* SpecSocketLive adds that the server's own steps are taken when they     *)
(* stay possible; nothing is assumed of the clients.                       *)
(***************************************************************************)
NextSocket ==
    \/ Start /\ UNCHANGED notSockVars
    \/ \E c \in Conns : Accept(c) /\ UNCHANGED notSockVars
    \/ \E c \in Conns, ok \in BOOLEAN :
          Upgrade(c, ok) /\ UNCHANGED notSockVars
    \/ \E c \in Conns : Register(c) /\ UNCHANGED notSockVars
    \/ \E c \in Conns : Spawn(c) /\ UNCHANGED notSockVars
    \/ \E c \in Conns, frame \in Frames :
          ClientSend(c, frame) /\ UNCHANGED notSockVars
    \/ \E c \in Conns : ClientClose(c) /\ UNCHANGED notSockVars
    \/ \E c \in Conns : ReadMessage(c) /\ UNCHANGED notSockVars
    \/ \E c \in Conns : processRequest(c) /\ UNCHANGED notSockVars
    \/ \E c \in Conns, ok \in BOOLEAN :
          WriteMessage(c, ok) /\ UNCHANGED notSockVars
    \/ \E c \in Conns : HandlerExit(c) /\ UNCHANGED notSockVars
    \/ StopLocked /\ UNCHANGED notSockVars
    \/ ShutdownBegin /\ UNCHANGED notSockVars
    \/ ShutdownTick /\ UNCHANGED notSockVars
    \/ ShutdownReturn /\ UNCHANGED notSockVars
    \/ StopWaitReturn /\ UNCHANGED notSockVars

SpecSocket == Init /\ [][NextSocket]_vars

ServerSteps ==
    \/ \E c \in Conns, ok \in BOOLEAN : Upgrade(c, ok)
    \/ \E c \in Conns : Register(c) \/ Spawn(c) \/ ReadMessage(c) \/ processRequest(c)
                           \/ HandlerExit(c)
    \/ \E c \in Conns, ok \in BOOLEAN : WriteMessage(c, ok)
    \/ StopLocked \/ ShutdownBegin \/ ShutdownTick \/ ShutdownReturn \/ StopWaitReturn

SpecSocketLive == Init /\ [][NextSocket]_vars /\ WF_sockVars(ServerSteps)


(***************************************************************************)
(* SpecMemo: NumAppenders concurrent append_insight calls and the reads of *)
(* the memo.                                                               *)
(***************************************************************************)
NextMemo ==
    \/ \E a \in Appenders, insight \in Insights :
          AppendInsightHandler(a, insight) /\ UNCHANGED notMemoVars
    \/ \E a \in Appenders : AppendInsightStore(a) /\ UNCHANGED notMemoVars
    \/ ReadMemo /\ UNCHANGED notMemoVars

SpecMemo == Init /\ [][NextMemo]_vars


(***************************************************************************)
(* SpecShutdown: Shutdown of cmd/app while queries run on the handle.      *)
(***************************************************************************)
NextShutdown ==
    \/ \E n \in 0..RunSteps : SignalDuringRun(n) /\ UNCHANGED <<dbVars, notAppVars>>
    \/ ShutdownCancel /\ UNCHANGED notAppVars
    \/ ShutdownHTTP /\ UNCHANGED <<dbVars, notAppVars>>
    \/ \E drained \in BOOLEAN : HTTPReturn(drained) /\ UNCHANGED <<dbVars, notAppVars>>
    \/ ShutdownMCP /\ UNCHANGED <<dbVars, notAppVars>>
    \/ \E drained \in BOOLEAN : MCPReturn(drained) /\ UNCHANGED <<dbVars, notAppVars>>
    \/ ShutdownSock /\ UNCHANGED <<dbVars, notAppVars>>
    \/ SockReturn /\ UNCHANGED <<dbVars, notAppVars>>
    \/ ShutdownCloseDB /\ UNCHANGED notAppVars
    \/ ShutdownDBClosed /\ UNCHANGED notAppVars
    \/ HTTPWorkerDone /\ UNCHANGED <<dbVars, notAppVars>>
    \/ SockWorkerDone /\ UNCHANGED <<dbVars, notAppVars>>
    \/ ShutdownJoin /\ UNCHANGED <<dbVars, notAppVars>>
    \/ \E q \in Queries : ExecuteQuery(q, ConcurrentInputs) /\ UNCHANGED <<app, notAppVars>>
    \/ \E q \in Queries : Prepare(q) /\ UNCHANGED <<app, notAppVars>>
    \/ \E q \in Queries : StmtQuery(q) /\ UNCHANGED <<app, notAppVars>>
    \/ WorkerExit /\ UNCHANGED <<app, notAppVars>>

SpecShutdown == Init /\ [][NextShutdown]_vars


(***************************************************************************)
(* SpecMain: the process from its start to its exit, with the seconds of   *)
(* the shutdown context.                                                   *)
(***************************************************************************)
NextMain ==
    \/ MainVersion /\ UNCHANGED <<dbVars, notProcVars>>
    \/ \E failure \in StartupFailures : RunFails(failure) /\ UNCHANGED <<dbVars, notProcVars>>
    \/ MainApplicationFailed /\ UNCHANGED <<dbVars, notProcVars>>
    \/ RunStarted /\ UNCHANGED <<dbVars, notProcVars>>
    \/ \E n \in 0..RunSteps :
          proc.pc = "start" /\ SignalDuringRun(n) /\ UNCHANGED <<dbVars, notAppVars>>
    \/ MainSignal /\ UNCHANGED notProcVars
    \/ ShutdownSecond /\ UNCHANGED <<dbVars, notAppVars>>
    \/ ShutdownHTTP /\ UNCHANGED <<dbVars, notAppVars>>
    \/ \E drained \in BOOLEAN : HTTPReturn(drained) /\ UNCHANGED <<dbVars, notAppVars>>
    \/ ShutdownMCP /\ UNCHANGED <<dbVars, notAppVars>>
    \/ \E drained \in BOOLEAN : MCPReturn(drained) /\ UNCHANGED <<dbVars, notAppVars>>
    \/ ShutdownSock /\ UNCHANGED <<dbVars, notAppVars>>
    \/ SockReturn /\ UNCHANGED <<dbVars, notAppVars>>
    \/ ShutdownCloseDB /\ UNCHANGED notAppVars
    \/ ShutdownDBClosed /\ UNCHANGED notAppVars
    \/ HTTPWorkerDone /\ UNCHANGED <<dbVars, notAppVars>>
    \/ SockWorkerDone /\ UNCHANGED <<dbVars, notAppVars>>
    \/ ShutdownJoin /\ UNCHANGED <<dbVars, notAppVars>>

SpecMain == Init /\ [][NextMain]_vars


(***************************************************************************)
(* SpecLimit: the router is set up under every server mode and rate, then  *)
(* two clients send their requests.                                        *)
(***************************************************************************)
NextLimit ==
    \/ \E serverModeEnv \in ServerModeEnvs : \E rpsEnv \in RpsEnvs :
          setupRouter(serverModeEnv, rpsEnv) /\ UNCHANGED notLimiter
    \/ \E ip \in ClientIPs : RateLimited(ip) /\ UNCHANGED notLimiter
    \/ \E ip \in ClientIPs : WindowEnds(ip) /\ UNCHANGED notLimiter

SpecLimit == Init /\ [][NextLimit]_vars

(***************************************************************************)
(* SpecUploads: concurrent uploads over two table names.                   *)
(***************************************************************************)
NextUploads ==
    \/ \E u \in Uploaders : \E tableName \in ConcurrentTables : \E override \in BOOLEAN :
          UploaderCreate(u, tableName, override) /\ UNCHANGED notUploaders
    \/ \E u \in Uploaders : UploaderWrite(u) /\ UNCHANGED notUploaders
    \/ \E u \in Uploaders : UploaderCheck(u) /\ UNCHANGED notUploaders
    \/ \E u \in Uploaders : \E first \in {"catalog", "file"} :
          UploaderImport(u, first) /\ UNCHANGED notUploaders
    \/ \E u \in Uploaders : UploaderInfo(u) /\ UNCHANGED notUploaders
    \/ \E u \in Uploaders : UploaderCount(u) /\ UNCHANGED notUploaders
    \/ \E u \in Uploaders : UploaderCleanup(u) /\ UNCHANGED notUploaders

SpecUploads == Init /\ [][NextUploads]_vars

(***************************************************************************)
(* SpecTool: one read_query call over every text of at most MaxToolLen     *)
(* lexemes.                                                                *)
(***************************************************************************)
NextTool ==
    \/ \E text \in ToolInputs : ReadQueryHandler(text) /\ UNCHANGED notTool
    \/ tool.pc = "called" /\ Prepare(1) /\ UNCHANGED <<notTool, tool>>
    \/ tool.pc = "called" /\ StmtQuery(1) /\ UNCHANGED <<notTool, tool>>
    \/ ReadQueryReturn /\ UNCHANGED notTool

SpecTool == Init /\ [][NextTool]_vars

(***************************************************************************)
(* SpecApplyLimit: one /query request over every text of at most           *)
(* MaxLimitLen lexemes and every limit.                                    *)
(***************************************************************************)
NextApplyLimit ==
    \E queryText \in LimitInputs : \E limit \in Limits :
        handleQuery(queryText, limit) /\ UNCHANGED notQueryRequest

SpecApplyLimit == Init /\ [][NextApplyLimit]_vars

(***************************************************************************)
(* SpecStopTwice: the socket server with both calls of Stop; the clients   *)
(* send query frames only.  Every step of the server is taken when it      *)
(* stays possible; no client is bound to act.                              *)
(***************************************************************************)
QueryFrame == [type |-> "text", payload |-> "query"]

WatcherSteps ==
    \/ WatcherStopLocked \/ WatcherShutdownBegin \/ WatcherShutdownTick
    \/ WatcherShutdownReturn \/ WatcherWaitReturn

NextStopTwice ==
    \/ Start /\ UNCHANGED notSockVars
    \/ \E c \in Conns : Accept(c) /\ UNCHANGED notSockVars
    \/ \E c \in Conns, ok \in BOOLEAN : Upgrade(c, ok) /\ UNCHANGED notSockVars
    \/ \E c \in Conns : Register(c) /\ UNCHANGED notSockVars
    \/ \E c \in Conns : Spawn(c) /\ UNCHANGED notSockVars
    \/ \E c \in Conns : ClientSend(c, QueryFrame) /\ UNCHANGED notSockVars
    \/ \E c \in Conns : ClientClose(c) /\ UNCHANGED notSockVars
    \/ \E c \in Conns : ReadMessage(c) /\ UNCHANGED notSockVars
    \/ \E c \in Conns : processRequest(c) /\ UNCHANGED notSockVars
    \/ \E c \in Conns, ok \in BOOLEAN : WriteMessage(c, ok) /\ UNCHANGED notSockVars
    \/ \E c \in Conns : HandlerExit(c) /\ UNCHANGED notSockVars
    \/ StopLocked /\ UNCHANGED notSockVars
    \/ ShutdownBegin /\ UNCHANGED notSockVars
    \/ ShutdownTick /\ UNCHANGED notSockVars
    \/ ShutdownReturn /\ UNCHANGED notSockVars
    \/ StopWaitReturn /\ UNCHANGED notSockVars
    \/ WatcherStopLocked /\ UNCHANGED notWatcher
    \/ WatcherShutdownBegin /\ UNCHANGED notWatcher
    \/ WatcherShutdownTick /\ UNCHANGED notWatcher
    \/ WatcherShutdownReturn /\ UNCHANGED notWatcher
    \/ WatcherWaitReturn /\ UNCHANGED notWatcher

SpecStopTwice ==
    Init /\ [][NextStopTwice]_vars /\ WF_sockVars(ServerSteps) /\ WF_stopVars(WatcherSteps)

(***************************************************************************)
(* SpecFrames: two connections whose clients send text frames ahead of the *)
(* answers and close when they like; Stop is not called.                   *)
(***************************************************************************)
FrameConns == {1, 2}
TextFrames == {f \in Frames : f.type = "text" /\ f.payload # "empty"}

NextFrames ==
    \/ Start /\ UNCHANGED notSockVars
    \/ \E c \in FrameConns : Accept(c) /\ UNCHANGED notSockVars
    \/ \E c \in FrameConns : Upgrade(c, TRUE) /\ UNCHANGED notSockVars
    \/ \E c \in FrameConns : Register(c) /\ UNCHANGED notSockVars
    \/ \E c \in FrameConns : Spawn(c) /\ UNCHANGED notSockVars
    \/ \E c \in FrameConns, frame \in TextFrames :
          ClientSendAhead(c, frame) /\ UNCHANGED notSockVars
    \/ \E c \in FrameConns : ClientClose(c) /\ UNCHANGED notSockVars
    \/ \E c \in FrameConns : ReadMessage(c) /\ UNCHANGED notSockVars
    \/ \E c \in FrameConns : processRequest(c) /\ UNCHANGED notSockVars
    \/ \E c \in FrameConns, ok \in BOOLEAN : WriteMessage(c, ok) /\ UNCHANGED notSockVars
    \/ \E c \in FrameConns : HandlerExit(c) /\ UNCHANGED notSockVars

SpecFrames == Init /\ [][NextFrames]_vars

(***************************************************************************)
(*                              The claims                                 *)
(***************************************************************************)

\* C1 (as claimed): every ExecuteQuery, CreateSnapshot or CSV table create
\* called after Close has returned fails with an error that contains
\* "database is closed", and hands no statement to the engine.
C1_AfterCloseDatabaseIsClosed ==
    /\ \A q \in Queries :
         (query[q].pc = "done" /\ query[q].afterClose)
             => (ContainsDatabaseIsClosed(query[q].err) /\ query[q].sent = <<>>)
    /\ \A s \in Snapshots :
         (snap[s].pc = "done" /\ snap[s].afterClose)
             => ContainsDatabaseIsClosed(snap[s].err)
    /\ (csv.pc = "done" /\ csv.afterClose) => ContainsDatabaseIsClosed(csv.err)

\* C2 (as claimed): the handle goes Open, Closing, Closed, each transition
\* once, and a statement is handed to the engine only while the handle is
\* Open, never once a Close has begun.
C2_AdmittedOnlyWhileOpen ==
    /\ trail = SubSeq(<<"Open", "Closing", "Closed">>, 1, Len(trail))
    /\ \A q \in Queries : query[q].admit \subseteq {"Open"}

\* The operations that are on the engine while they hold the write lock.
LockedMutators ==
    {<<"close", c>> : c \in {d \in Closers : closer[d].pc = "closing"}}
        \cup (IF csv.pc = "locked" THEN {<<"csv", 1>>} ELSE {})
        \cup (IF worker.pc = "dropping" THEN {<<"worker", 1>>} ELSE {})

\* The ExecuteQuery calls that have a state-mutating statement on the engine.
QueryMutators ==
    {<<"query", q>> : q \in {r \in Queries :
        query[r].pc = "exec" /\ StmtKind(query[r].queries[query[r].i]) \in Mutating}}

\* C3 (as claimed): no two state-mutating operations (Close, DDL, cleanup
\* drops) are on the engine at the same time.
C3_AllMutatorsSerialized == Cardinality(LockedMutators \cup QueryMutators) <= 1

\* C3 (amended): Close, the CSV table create and the cleanup worker's drop
\* are on the engine only while they hold the handle's write lock, so no two
\* of them are on the engine at the same time.
C3_LockHoldersSerialized ==
    /\ \A p \in LockedMutators : muWriter = p
    /\ Cardinality(LockedMutators) <= 1

\* C3 witness: the worker's drop is on the engine under the lock while a
\* DDL statement of ExecuteQuery is on the engine beside it.
C3_Witness == worker.pc = "dropping" /\ QueryMutators # {} /\ closer[1].pc = "idle"

\* C4 (as claimed): the copy of every snapshot that finished without error
\* is the engine file as it stood after the snapshot's checkpoint.
C4_SnapshotIsFileAfterCheckpoint ==
    \A s \in Snapshots :
        (snap[s].pc = "done" /\ snap[s].err = NoErr)
            => snap[s].copy = <<snap[s].ckpt, snap[s].ckpt>>

\* C5 (as claimed): a query that is in flight when the root context is
\* cancelled returns a cancelled error.
ErrCanceled == "context canceled"
C5_CancelledQueriesReturnCancelled ==
    \A q \in Queries :
        (query[q].pc = "done" /\ query[q].atCancel) => query[q].err = ErrCanceled

\* the indices of the segments the loop of ExecuteQuery does not skip
RECURSIVE NonEmptyFrom(_, _)
NonEmptyFrom(queries, i) ==
    IF i > Len(queries) THEN <<>>
    ELSE IF TrimSpace(queries[i]) = <<>> THEN NonEmptyFrom(queries, i + 1)
    ELSE <<i>> \o NonEmptyFrom(queries, i + 1)

\* C6: the segments of a submission go to the engine one after another from
\* left to right, and once a segment has failed the call has returned and no
\* later segment has gone to the engine.
C6_SequentialAbortOnFailure ==
    \A q \in Queries :
        LET qr == query[q]
            order == NonEmptyFrom(qr.queries, 1)
        IN  /\ Len(qr.sent) <= Len(order)
            /\ qr.sent = SubSeq(order, 1, Len(qr.sent))
            /\ qr.pc = "exec" => qr.sent # <<>> /\ qr.sent[Len(qr.sent)] = qr.i
            /\ qr.failedAt # 0 =>
                 /\ qr.pc = "done"
                 /\ qr.err \in {ErrEngine, ErrSqlClosed}
                 /\ \A k \in 1..Len(qr.sent) : qr.sent[k] <= qr.failedAt

\* C6 witness: a call that returned after a segment failed, with a later
\* non-empty segment never sent.
C6_Witness ==
    \E q \in Queries :
        /\ query[q].pc = "done"
        /\ query[q].failedAt # 0
        /\ Len(query[q].sent) >= 1
        /\ Len(NonEmptyFrom(query[q].queries, 1)) > Len(query[q].sent)

Suspicious(text) == \E p \in 1..Len(suspiciousPatterns(text)) : suspiciousPatterns(text)[p]

\* C7: a submission any part of which matches a deny-list pattern returns
\* the validation error with no segment sent to the engine.
C7_ValidationBeforeEngine ==
    \A q \in Queries :
        (query[q].pc # "idle" /\ Suspicious(query[q].text))
            => /\ query[q].pc = "done"
               /\ query[q].err = ErrValidation
               /\ query[q].sent = <<>>

\* C7 witness: a rejected submission whose first segment is a statement the
\* deny-list does not match; the match is in a later segment.
C7_Witness ==
    \E q \in Queries :
        /\ query[q].pc = "done"
        /\ query[q].err = ErrValidation
        /\ Len(splitQueryBySemicolon(query[q].text)) >= 2
        /\ StmtKind(splitQueryBySemicolon(query[q].text)[1]) = "SELECT"
        /\ ~Suspicious(splitQueryBySemicolon(query[q].text)[1])

\* C8 (as claimed): a submission that is a single DROP TABLE, ALTER TABLE
\* or DELETE without WHERE is rejected by the pre-flight validation, and
\* DROP TABLE IF EXISTS t; CREATE TABLE t (...) is accepted.
C8_StandaloneDestructiveRejected ==
    \A q \in Queries :
        query[q].pc # "idle" =>
            /\ query[q].text \in {<<"DROP">>, <<"ALTER">>, <<"DELETE">>}
                 => query[q].err = ErrValidation
            /\ query[q].text = <<"DROPIF", ";", "CREATE">>
                 => query[q].err # ErrValidation


\* the lines of an input: each ends with its "\n"; bytes after the last
\* "\n" are one more line
RECURSIVE FrameFrom(_, _)
FrameFrom(input, cur) ==
    IF input = <<>> THEN (IF cur = <<>> THEN <<>> ELSE <<cur>>)
    ELSE IF Head(input) = "\n"
    THEN <<Append(cur, "\n")>> \o FrameFrom(Tail(input), <<>>)
    ELSE FrameFrom(Tail(input), Append(cur, Head(input)))

FrameLines(input) == FrameFrom(input, <<>>)

ValidateCalls == SelectSeq(ctx.calls, LAMBDA e : e.op = "validate")

\* C9 (as claimed): with API_KEY set, a request on any listener that does
\* not carry exactly that key is answered 401 and reaches no handler; with
\* API_KEY unset no request is answered 401.
C9_EveryRequestNeedsTheKey ==
    nServed > 0 =>
        /\ (apiKeyEnv # "" /\ request.key # apiKeyEnv)
             => (response.status = StatusUnauthorized /\ response.handler = NoHandler)
        /\ apiKeyEnv = "" => response.status # StatusUnauthorized

\* C10: in a bounded copy with a validator, line 1 is written without being
\* passed to the validator, and every later line is passed to it once, as
\* the whole line of the input, before the line is written, whatever the
\* pieces the reads cut the input into; a copy that ends without error has
\* screened every line after the first.
C10_LaterLinesScreenedWholeOnce ==
    copyIn.validator # "nil" =>
        LET lines == FrameLines(copyIn.input)
        IN  /\ \A i \in 1..Len(ValidateCalls) :
                 /\ ValidateCalls[i].n = i + 1
                 /\ i + 1 <= Len(lines)
                 /\ ValidateCalls[i].data = lines[i + 1]
            /\ \A j \in 1..Len(ctx.calls) :
                 ctx.calls[j].op = "write" =>
                     /\ ctx.calls[j].n <= Len(lines)
                     /\ ctx.calls[j].data = lines[ctx.calls[j].n]
                     /\ ctx.calls[j].n >= 2 =>
                          \E i \in 1..(j - 1) :
                              /\ ctx.calls[i].op = "validate"
                              /\ ctx.calls[i].n = ctx.calls[j].n
            /\ (copyPc = "done" /\ ctx.err = NoErr /\ lines # <<>>)
                 => Len(ValidateCalls) = Len(lines) - 1

\* C10 witness: a copy that ended without error, whose second line reached
\* the source in two reads, was screened and was written after line 1.
C10_Witness ==
    /\ copyPc = "done"
    /\ ctx.err = NoErr
    /\ copyIn.validator # "nil"
    /\ Len(FrameLines(copyIn.input)) >= 2
    /\ \E cut \in cuts :
         /\ cut > Len(FrameLines(copyIn.input)[1])
         /\ cut < Len(FrameLines(copyIn.input)[1]) + Len(FrameLines(copyIn.input)[2])
    /\ Len(ValidateCalls) >= 1
    /\ \E j \in 1..Len(ctx.calls) : ctx.calls[j].op = "write" /\ ctx.calls[j].n = 2


\* the lines of the input that hold a flagged byte and that the copy screens
FlaggedLines ==
    {n \in 2..Len(FrameLines(copyIn.input)) : Has(FrameLines(copyIn.input)[n], "x")}

\* the lines the copy has handed to the sink, by number
WrittenLines == {ctx.calls[j].n : j \in {k \in 1..Len(ctx.calls) : ctx.calls[k].op = "write"}}

\* C11 (as claimed): in an upload, whose callback is the injection screen,
\* a flagged row fails the copy only under reject_file; under reject_row the
\* copy goes on without that row, and under ignore it goes on with the row
\* written and a warning.
C11_ModeDecidesFlaggedRow ==
    (copyPc = "done" /\ copyIn.validator = "screen" /\ FlaggedLines # {}
        /\ ~Has(FrameLines(copyIn.input)[1], "x")
        /\ copyIn.room >= Len(copyIn.input) /\ Len(copyIn.input) <= copyIn.maxSize
        /\ ctx.err # ErrSourceRead)
    => CASE copyIn.mode = ValidationModeRejectFile -> IsErrInvalidBuffer(ctx.err)
         [] copyIn.mode = ValidationModeRejectRow ->
                ctx.err = NoErr /\ WrittenLines \cap FlaggedLines = {}
         [] copyIn.mode = ValidationModeIgnore ->
                ctx.err = NoErr /\ FlaggedLines \subseteq WrittenLines
                    /\ ctx.ValidationWarnings >= 1


\* C12: once the validator has answered a line with an error that wraps
\* ErrInvalidBuffer, the copy has returned with that error, whatever the
\* mode: that call is the last thing the copy did, and the line was not
\* written.
C12_InvalidBufferErrorEndsCopy ==
    \A i \in 1..Len(ctx.calls) :
        (ctx.calls[i].op = "validate" /\ IsErrInvalidBuffer(Validator(ctx.calls[i].data).err))
            => /\ copyPc = "done"
               /\ ctx.err = Validator(ctx.calls[i].data).err
               /\ i = Len(ctx.calls)
               /\ ctx.calls[i].n \notin WrittenLines

\* C12 witness: under reject_row or ignore a copy that has written line 1
\* returned with such an error while bytes of the source were still unread.
C12_Witness ==
    /\ copyPc = "done"
    /\ copyIn.mode \in {ValidationModeRejectRow, ValidationModeIgnore}
    /\ IsErrInvalidBuffer(ctx.err)
    /\ ctx.calls # <<>>
    /\ ctx.calls[Len(ctx.calls)].op = "validate"
    /\ 1 \in WrittenLines
    /\ source # <<>>


\* C13 (as claimed): a copy of an input longer than the cap into a sink that
\* takes every byte returns ErrMaxFileSizeExceeded, and has written no more
\* than the cap and one buffer.
C13_OvershootWithinOneBuffer ==
    (copyPc = "done" /\ Len(copyIn.input) > copyIn.maxSize /\ copyIn.validator = "nil"
        /\ copyIn.room >= Len(copyIn.input) /\ ctx.err # ErrSourceRead)
    => /\ ctx.err = ErrMaxFileSizeExceeded
       /\ ctx.Written <= copyIn.maxSize + BufferSize


\* the lines of the input the copy skips: those a validator reports invalid,
\* with an issue and without an error, under reject_row
SkippedLines ==
    IF copyIn.validator = "nil" \/ copyIn.mode # ValidationModeRejectRow THEN {}
    ELSE {n \in 2..Len(FrameLines(copyIn.input)) :
            LET v == Validator(FrameLines(copyIn.input)[n])
            IN  v.err = NoErr /\ ~v.isValid /\ v.issue}

\* the lines from the n-th on, without those of skip, one after another
RECURSIVE KeptFrom(_, _, _)
KeptFrom(lines, n, skip) ==
    IF n > Len(lines) THEN <<>>
    ELSE (IF n \in skip THEN <<>> ELSE lines[n]) \o KeptFrom(lines, n + 1, skip)

\* C14: a copy of an input no longer than the cap that ends without error
\* has left in the sink the input without the lines skipped under
\* reject_row, a last line without newline included, and reports that many
\* bytes written.
C14_SinkIsInputWithoutSkippedLines ==
    (copyPc = "done" /\ ctx.err = NoErr /\ Len(copyIn.input) <= copyIn.maxSize)
    => /\ ctx.Destination = KeptFrom(FrameLines(copyIn.input), 1, SkippedLines)
       /\ ctx.Written = Len(ctx.Destination)
       /\ ctx.Written + Len(KeptFrom(FrameLines(copyIn.input), 1,
                                     (1..Len(FrameLines(copyIn.input))) \ SkippedLines))
              = Len(copyIn.input)

\* C14 witness: a copy under reject_row that ended without error, skipped a
\* line and wrote the others, the input filling the cap.
C14_Witness ==
    /\ copyPc = "done"
    /\ ctx.err = NoErr
    /\ Len(copyIn.input) = copyIn.maxSize
    /\ SkippedLines # {}
    /\ ctx.Written > 0
    /\ ctx.Written < Len(copyIn.input)


\* the upload request has passed the checks made before the copy, and the
\* copy into the temporary file has been started
CopyStarted == upload.path # <<>>

\* C15: an upload whose file is not in the declared encoding, or whose CSV
\* structure is invalid, is answered with INVALID_ENCODING,
\* INVALID_CSV_STRUCTURE or CSV_VALIDATION_ERROR, and no table is created
\* or dropped; this for the files no other check of the copy rejects.
C15_FirstLineFormatValidated ==
    (upload.pc = "done" /\ CopyStarted
        /\ upload.req.filename # "test"
        /\ (validateEncodingFromData(upload.req.content, upload.req.encoding,
                                     upload.req.detected) # NoErr
              \/ (upload.req.structure # "ok" /\ upload.req.content # <<>>))
        /\ ctx.err = NoErr)
    => /\ upload.code \in {"INVALID_ENCODING", "INVALID_CSV_STRUCTURE", "CSV_VALIDATION_ERROR"}
       /\ tables = upload.before

\* C16: the path of the temporary file of an upload and every statement the
\* upload sends to the engine are built from the sanitized table name.
C16_OnlySanitizedNameUsed ==
    upload.pc = "done"
    => /\ CopyStarted =>
             upload.path = createTempFileForUpload(sanitizeTableName(upload.req.tableName))
       /\ \A i \in 1..Len(upload.stmts) :
             upload.stmts[i].name = sanitizeTableName(upload.req.tableName)

\* C17: an upload with override=false whose table exists when the import
\* starts is answered DUPLICATE_TABLE_NAME, has sent no CREATE and has left
\* the tables as they were.
C17_DuplicateRefusedBeforeCreate ==
    (upload.pc = "done" /\ upload.stmts # <<>> /\ ~upload.req.override
        /\ sanitizeTableName(upload.req.tableName) \in upload.before)
    => /\ upload.code = "DUPLICATE_TABLE_NAME"
       /\ \A i \in 1..Len(upload.stmts) : upload.stmts[i].op # "CREATE"
       /\ tables = upload.before

\* C18: when a request has been answered, the temporary file it created is
\* no longer in the temporary directory.
C18_TempFilesRemoved ==
    /\ upload.pc = "done" => upload.path \notin tempFiles
    /\ snapshotReq.pc = "done" => SnapshotPath \notin tempFiles

\* C19: an upload that fails is answered 400 for a binding, encoding, format
\* or structure error, 413 for a file over the cap, 422 for a security,
\* import or duplicate-table error.
C19_FailureStatusByClass ==
    (upload.pc = "done" /\ upload.status # StatusOK)
    => CASE upload.code \in {"INVALID_REQUEST_PARAMETERS", "UNSUPPORTED_ENCODING",
                             "INVALID_ENCODING", "INVALID_FILE_FORMAT",
                             "INVALID_CSV_STRUCTURE", "CSV_VALIDATION_ERROR"} ->
                upload.status = StatusBadRequest
         [] upload.code = "FILE_SIZE_EXCEEDED" ->
                upload.status = StatusRequestEntityTooLarge
         [] upload.code \in {"SECURITY_VALIDATION_FAILED", "DIRECT_IMPORT_FAILED",
                             "TABLE_INFO_ERROR", "ROW_COUNT_ERROR",
                             "DUPLICATE_TABLE_NAME"} ->
                upload.status = StatusUnprocessableEntity
         [] OTHER -> TRUE


\* C20: whenever the worker has dropped a table, at least ExpiryDelay
\* minutes had passed since the name of the table was last sent on the
\* cleanup channel.
C20_NoDropBeforeExpiry ==
    \A r \in CleanupNames : dropGap[r] # Never => dropGap[r] >= ExpiryDelay


\* C21: once Close has cancelled the context of the handle and returned,
\* the cleanup worker issues no DROP TABLE.
C21_NoDropAfterClose ==
    [][(dbCtxCancelled /\ CloseReturned)
          => ~(worker.pc = "dropping" /\ worker'.pc # "dropping")]_vars

\* a Close that returns having found the connection closed by an earlier one
SecondCloseReturns(c) ==
    closer[c].pc = "closing" /\ sqlClosed /\ closer'[c].pc = "done"

EntryRemoved(resource) ==
    worker.resources[resource] = "expired" /\ worker'.resources[resource] = "absent"

\* the step is the DROP TABLE IF EXISTS of resource, made under the write lock
DropIssued(resource) ==
    worker.pc = "dropping" /\ worker.cur = resource /\ muWriter = <<"worker", 1>>

\* C22: the step in which the worker removes an expired entry is the DROP
\* TABLE IF EXISTS of its sanitized name, under the write lock, exactly
\* when the sanitized name starts with tmp_import_.
C22_DropIffSanitizedNameTransient ==
    [][\A r \in CleanupNames :
          EntryRemoved(r) =>
              (HasPrefixTmpImport(sanitizeTableName(r)) <=> DropIssued(r))]_vars


\* C24: every call to Stop returns, whatever the clients do.
C24_StopReturns == (sock.stop # "idle") ~> (sock.stop = "done")


\* no step of the handler of c is possible until its client acts
AtRest(c) ==
    \/ conn[c].pc = "exited"
    \/ conn[c].pc = "reading" /\ ~conn[c].closed /\ ~conn[c].peerClosed
          /\ conn[c].inbox = <<>>

\* C25: once Stop has stopped a started server and returned, every
\* connection the server has upgraded, whose handler is at rest, is closed
\* and its handler has exited.
C25_StoppedServerHasNoOpenConnection ==
    (sock.stop = "done" /\ sock.httpServer)
        => \A c \in Conns :
              (Accepted(c) /\ AtRest(c)) => (conn[c].closed /\ conn[c].pc = "exited")

\* the handler of c takes a binary frame from its connection in this step
ReadsBinary(c) ==
    /\ conn[c].pc = "reading"
    /\ conn[c].inbox # <<>>
    /\ conn'[c].inbox # conn[c].inbox
    /\ Head(conn[c].inbox).type = "binary"

\* C26: a handler that has read a binary frame waits for the next message:
\* it executes no query, sends no response and does not leave its loop
\* while the binary frame is the last it has read.
C26_BinaryFrameIgnored ==
    [][\A c \in Conns :
          /\ ReadsBinary(c) => conn'[c].pc = "reading"
          /\ conn[c].cur.type = "binary" =>
                /\ conn'[c].executed = conn[c].executed
                /\ conn'[c].responses = conn[c].responses]_vars


\* the number of insight lines of a memo
InsightLines(m) ==
    Cardinality({i \in 1..Len(m) : Len(m[i]) = 2 /\ m[i][1] = "- "})

\* the append_insight calls that have returned success
Added == {a \in Appenders : appender[a].pc = "done" /\ appender[a].result = ResultAdded}

\* C27: when no append_insight call is running, the memo holds one insight
\* line for each call that has returned success.
C27_OneLinePerAppend ==
    (\A a \in Appenders : appender[a].pc # "appending")
        => InsightLines(SynthesizeMemo(insights)) = Cardinality(Added)

\* the place of a step of Shutdown in the order of the claim
Rank(step) ==
    CASE step = "cancel" -> 1
      [] step = "http.Shutdown" -> 2
      [] step = "http.returned" -> 3
      [] step = "mcp.Shutdown" -> 4
      [] step = "mcp.returned" -> 5
      [] step = "sock.Stop" -> 6
      [] step = "sock.returned" -> 7
      [] step = "db.Close" -> 8
      [] step = "db.closed" -> 9
      [] step = "joined" -> 10

Logged(step) == \E i \in 1..Len(app.log) : app.log[i] = step

Submitted == query[1].pc # "idle"

\* the kind of quote that is open before position i of text, "" when none
\* is: a quote is closed by the next quote character of its own kind, and a
\* backslash takes the meaning from the character after it
RECURSIVE OpenQuoteFrom(_, _, _, _, _)
OpenQuoteFrom(text, i, k, open, escaped) ==
    IF k >= i THEN open
    ELSE IF escaped THEN OpenQuoteFrom(text, i, k + 1, open, FALSE)
    ELSE IF text[k] = "\\" THEN OpenQuoteFrom(text, i, k + 1, open, TRUE)
    ELSE IF text[k] \in {"\"", "'"}
    THEN OpenQuoteFrom(text, i, k + 1,
                       IF open = "" THEN text[k] ELSE IF open = text[k] THEN "" ELSE open,
                       FALSE)
    ELSE OpenQuoteFrom(text, i, k + 1, open, FALSE)

OpenQuote(text, i) == OpenQuoteFrom(text, i, 1, "", FALSE)

\* position i lies between an opening quote and its closing quote
BetweenQuotes(text, i) ==
    /\ OpenQuote(text, i) # ""
    /\ \E j \in (i + 1)..Len(text) :
          /\ OpenQuote(text, j) = OpenQuote(text, i)
          /\ OpenQuote(text, j + 1) = ""

RECURSIVE LenUpTo(_, _)
LenUpTo(segments, n) == IF n = 0 THEN 0 ELSE LenUpTo(segments, n - 1) + Len(segments[n])

\* the positions of the text at which a segment of the output ends
SegmentEnds(text, segments) ==
    {p \in 1..Len(text) : \E n \in 1..Len(segments) : p = LenUpTo(segments, n) + n}

\* C29: no segment of the output of splitQueryBySemicolon ends at a
\* semicolon that lies between an opening quote and its closing quote of
\* the same kind.
C29_NoSplitBetweenQuotes ==
    Submitted =>
        \A i \in 1..Len(query[1].text) :
            (query[1].text[i] = ";" /\ BetweenQuotes(query[1].text, i))
                => i \notin SegmentEnds(query[1].text, splitQueryBySemicolon(query[1].text))

RECURSIVE Join(_)
Join(segments) ==
    IF Len(segments) = 0 THEN <<>>
    ELSE IF Len(segments) = 1 THEN segments[1]
    ELSE segments[1] \o <<";">> \o Join(Tail(segments))

\* C30 as stated: the output of splitQueryBySemicolon holds no empty segment.
C30_NoEmptySegment ==
    Submitted =>
        \A n \in 1..Len(splitQueryBySemicolon(query[1].text)) :
            splitQueryBySemicolon(query[1].text)[n] # <<>>

\* C30 amended: splitQueryBySemicolon drops nothing but an empty segment at
\* the end of the text: its segments joined by semicolons are the text, or
\* the text without its last semicolon, and no segment that ends with the
\* text is empty.
C30_OnlyLastEmptySegmentDropped ==
    Submitted =>
        LET text == query[1].text
            segments == splitQueryBySemicolon(text)
        IN  /\ \/ Join(segments) = text
               \/ Join(segments) \o <<";">> = text
            /\ (segments # <<>> /\ segments[Len(segments)] = <<>>)
                   => Join(segments) \o <<";">> = text

\* C30 witness: a text with two semicolons in a row has been split and an
\* empty segment is in the output.
C30_Witness ==
    /\ Submitted
    /\ \E i \in 1..(Len(query[1].text) - 1) :
          query[1].text[i] = ";" /\ query[1].text[i + 1] = ";"
    /\ \E n \in 1..Len(query[1].queries) : query[1].queries[n] = <<>>

\* C31: a process that ends after a failure of its startup exits with code
\* 1, and one that exits with code 0 has ended by a normal shutdown (or has
\* only printed its version).
C31_ExitCodeTellsStartupFailure ==
    proc.pc = "exited" =>
        /\ proc.cause \in StartupFailures => proc.code = 1
        /\ proc.code = 0 => proc.cause \in {"signal", "version"}

\* C32: a listener whose Shutdown call has given up its in-flight work has
\* been waited for during ShutdownGrace seconds of its own.
C32_OwnGracePeriod ==
    /\ app.httpErr => app.httpWaited = ShutdownGrace
    /\ app.mcpErr => app.mcpWaited = ShutdownGrace

\* the segments of the call that are not blank
NonBlank(qr) == {n \in 1..Len(qr.queries) : TrimSpace(qr.queries[n]) # <<>>}

\* C33: a call of ExecuteQuery that returns without an error returns the
\* result of the last segment that is not blank, and the result of no other
\* segment; a call that returns an error returns no result.
C33_ResultOfLastSegment ==
    query[1].pc = "done" =>
        IF query[1].err = NoErr
        THEN /\ query[1].res \in NonBlank(query[1])
             /\ \A n \in NonBlank(query[1]) : n <= query[1].res
        ELSE query[1].res = 0

\* C33 witness: a submission of two statements has run and the call has
\* returned the result of the second.
C33_Witness ==
    /\ query[1].pc = "done" /\ query[1].err = NoErr
    /\ Cardinality(NonBlank(query[1])) >= 2
    /\ Len(query[1].sent) >= 2
    /\ query[1].res = query[1].sent[Len(query[1].sent)]

\* C34 (as claimed): unless the configured rate is 0 or the server runs in
\* test mode, a request of a client that has already sent its allowance of
\* this second is answered with 429.
RateIsZero(rpsEnv) == ~ParseUint(rpsEnv).err /\ ParseUint(rpsEnv).value = 0

C34_ExhaustedClientGets429 ==
    (/\ limiter.pc = "serving"
     /\ limiter.ip # ""
     /\ ~RateIsZero(limiter.rpsEnv)
     /\ limiter.mode # "test"
     /\ limiter.prior >= RateLimitOf(limiter.rpsEnv))
        => limiter.status = StatusTooManyRequests

\* C35 (as claimed): concurrent uploads do not interfere through their
\* temporary files: every import reads exactly the bytes its own request has
\* copied, and no request truncates or removes a temporary file that another
\* request is still using.
C35_TempFilesDoNotInterfere ==
    \A u \in Uploaders :
        /\ ups[u].created => ups[u].read = ContentOf(u)
        /\ ~ups[u].truncated
        /\ ~ups[u].removed


\* C36 (as claimed): of two uploads with override=false for the same table,
\* which does not exist yet, exactly one creates the table and the other is
\* answered with DUPLICATE_TABLE_NAME; the table of the first is not replaced.
BothDone(u, v) ==
    /\ u # v
    /\ ups[u].pc = "done" /\ ups[v].pc = "done"
    /\ ~ups[u].override /\ ~ups[v].override
    /\ ups[u].tableName = ups[v].tableName
    /\ \A w \in Uploaders \ {u, v} : ups[w].pc = "idle"

C36_OneCreatesOtherDuplicate ==
    \A u, v \in Uploaders :
        (BothDone(u, v) /\ ups[u].created)
            => /\ ~ups[v].created
               /\ ups[v].code = "DUPLICATE_TABLE_NAME"
               /\ ~ups[u].replaced /\ ~ups[v].replaced


\* C37 (as claimed): a read_query call changes no database state: every
\* statement the engine is given because of it is a SELECT, or a text the
\* engine fails to parse, and the catalog stays as it was.
C37_ReadQueryRunsSelectOnly ==
    tool.name = "read_query" =>
        /\ \A n \in 1..Len(query[1].sent) :
              StmtKind(query[1].queries[query[1].sent[n]]) \in {"SELECT", "BAD"}
        /\ tables = {}
        /\ ~walDirty


\* C39 (as claimed): a text without a LIMIT clause of its own that succeeds
\* without a limit also succeeds with a positive limit, and then returns at
\* most limit rows.
C39_LimitKeepsSuccess ==
    (/\ lq.pc = "done"
     /\ lq.limit > 0
     /\ \A i \in 1..Len(lq.queryText) : lq.queryText[i] \notin LimitClauses
     /\ lq.plain.err = NoErr)
        => /\ lq.out.err = NoErr
           /\ lq.out.rows <= lq.limit


\* C38 (as claimed): when Stop is called both by the context watcher of
\* Start and by Shutdown, each of the two calls returns.
C38_BothStopsReturn ==
    /\ (sock.stop # "idle") ~> (sock.stop = "done")
    /\ (watcher.pc # "idle") ~> (watcher.pc = "done")


\* C40 (as claimed): on each connection the server sends exactly one response
\* per request it has received, in the order of the requests, and no
\* response to a request of another connection.
Answering(c) == conn[c].pc \in {"processing", "writing"}

C40_OneResponsePerRequest ==
    \A c \in Conns :
        /\ conn[c].accepted = SubSeq(conn[c].wire, 1, Len(conn[c].accepted))
        /\ ~Answering(c) => conn[c].answered = conn[c].accepted
        /\ \A n \in 1..Len(conn[c].answered) : conn[c].answered[n].from = c

\* C40 (amended): the requests are received in the order the client has
\* sent them, and the responses sent on a connection answer, in order, the
\* requests received on it, each once; only the request received last can
\* be left without a response, and only when the handler still works on it
\* or has left its loop, after a write that failed.
C40_ResponsesArePrefixOfRequests ==
    \A c \in Conns :
        /\ Len(conn[c].accepted) <= Len(conn[c].wire)
        /\ conn[c].accepted = SubSeq(conn[c].wire, 1, Len(conn[c].accepted))
        /\ Len(conn[c].answered) <= Len(conn[c].accepted)
        /\ conn[c].answered = SubSeq(conn[c].accepted, 1, Len(conn[c].answered))
        /\ Len(conn[c].accepted) - Len(conn[c].answered) <= 1
        /\ Len(conn[c].accepted) > Len(conn[c].answered)
               => (Answering(c) \/ conn[c].pc \in {"exiting", "exited"})
        /\ \A n \in 1..Len(conn[c].answered) : conn[c].answered[n].from = c

C40_Witness ==
    /\ Len(conn[1].answered) = 2
    /\ conn[1].answered[1].payload # conn[1].answered[2].payload
    /\ Len(conn[2].answered) >= 1
    /\ conn[2].pc = "exited" /\ Len(conn[2].accepted) > Len(conn[2].answered)

====
